---- MODULE Spec2Model ----
(***************************************************************************)
(* State-machine model of the Ket runtime layer (src/src/ket/base.py):     *)
(* Process, Quant, Measurement, QuantumState and Samples.                  *)
(*                                                                         *)
(* The execution engine (libket, reached through ket.clib.libket.Process)  *)
(* is not part of the sources; its calls are modelled from the engine      *)
(* contract of the specification (section 6) and are the operators and     *)
(* variables whose names start with "engine_" / the variables status,      *)
(* executed and reg.                                                       *)
(***************************************************************************)
EXTENDS Integers, Sequences, FiniteSets, TLC

\* ------------------------------------------------------------------ bounds
\* Qubits one process may allocate in the model.
MaxQubits == 2
\* Longest index sequence of a Quant the model builds.
MaxLen == 2
\* Number of deferred-result objects the model creates.
MaxResults == 2

\* --------------------------------------------------------------- constants
\* Two processes, so that cross-process operations exist.
Procs == {"p1", "p2"}
\* The program's variables that hold Quant objects.
QVars == {"a", "b"}

VARIABLES
    mode,       \* mode[p]: "live" | "batch", fixed at construction
    executed,   \* executed[p]: the engine ran prepare_for_execution on p
    status,     \* status[p]: sequence of BOOLEAN, status[p][i+1] = qubit i allocated
    reg,        \* reg[p]: the engine's registered result requests of p
    quants,     \* quants[v]: the Quant object bound to program variable v
    results,    \* sequence of deferred-result objects (Measurement, ...)
    buffers,    \* buffers[p][ch]: the instructions / metadata buffer of process p
    sampled,    \* log of the sample() calls made on resolved snapshots, in order
    defaults,   \* the module's DEFAULT_PROCESS_CONFIGURATION
    engine_ok,  \* the engine answers result queries (FALSE: they report failure)
    last        \* outcome of the last operation: what the caller observed

vars == <<mode, executed, status, reg, quants, results, buffers, sampled, defaults,
          engine_ok, last>>

\* ------------------------------------------------------------------ values
None == "None"
NoErr == [type |-> "none", msg |-> ""]
NoQuant == [process |-> "none", qubits |-> <<>>]
\* An optional value: Python's None, or a value that is present.
Unknown == <<>>
Known(x) == <<x>>

\* Python exceptions, by class and message.
ValueError(m) == [type |-> "ValueError", msg |-> m]
IndexError == [type |-> "IndexError", msg |-> "list index out of range"]
ZeroDivisionError == [type |-> "ZeroDivisionError", msg |-> "complex division by zero"]
\* Failure reported by the engine for an instruction issued after the batch flush.
ProcessAlreadyExecutedError ==
    [type |-> "ProcessAlreadyExecutedError", msg |-> "process already executed"]

Range(s) == {s[i] : i \in DOMAIN s}

RECURSIVE SeqsUpTo(_, _)
SeqsUpTo(S, n) ==
    IF n = 0 THEN {<<>>}
    ELSE LET shorter == SeqsUpTo(S, n - 1)
         IN shorter \cup {Append(s, x) : s \in {t \in shorter : Len(t) = n - 1}, x \in S}

\* ------------------------------------------------------------------ engine
\* An instruction is accepted unless the process is a batch process that was flushed.
engine_accepts(p) == ~(mode[p] = "batch" /\ executed[p])

\* allocate_qubit(): the next index of the process's growing index space.
engine_allocate_qubit(st) == Len(st)

\* free_qubit(index): marks the index free.
engine_free_qubit(st, q) == [st EXCEPT ![q + 1] = FALSE]

\* get_qubit_status(index)[0]: allocated?
engine_get_qubit_status(st, q) == st[q + 1]

\* ------------------------------------------------------------------- Quant
Quant(qs, p) == [process |-> p, qubits |-> qs]

\* Python list indexing: negative positions count from the end.
PyInRange(l, i) == -Len(l) <= i /\ i < Len(l)
PyIndex(l, i) == IF i >= 0 THEN l[i + 1] ELSE l[Len(l) + i + 1]

\* Mutants of alloc_invalid: the guard off by one, either way.
alloc_invalid_lax(num_qubits) == num_qubits < 0
alloc_invalid_strict(num_qubits) == num_qubits <= 1

\* Process.alloc: the guard on num_qubits.
alloc_invalid(num_qubits) == num_qubits < 1

\* Mutant of alloc_calls: a range that stops one short.
alloc_calls_short(num_qubits) == num_qubits - 1

\* Process.alloc: number of allocate_qubit calls of the list comprehension.
alloc_calls(num_qubits) == num_qubits

\* Process.alloc: the statuses after k successive allocate_qubit calls.
RECURSIVE alloc_status(_, _)
alloc_status(st, k) ==
    IF k <= 0 THEN st ELSE alloc_status(Append(st, TRUE), k - 1)

\* Process.alloc: the list of the indices returned by k successive calls.
alloc_qubits_index(st, k) ==
    [i \in 1..(IF k > 0 THEN k ELSE 0) |-> engine_allocate_qubit(st) + i - 1]

\* Mutant of add_same_process: the test left out.
add_same_process_unchecked(self, other) == TRUE

\* Quant.__add__: the process identity test.
add_same_process(self, other) == self.process = other.process

\* Quant.__add__: the concatenated list.
add_qubits(self, other) == self.qubits \o other.qubits

\* Mutant of at_qubits: the selection returned in the group's order, not the given.
at_qubits_sorted(self, index) ==
    LET picked == [j \in 1..Len(index) |->
                      IF index[j] >= 0 THEN index[j] ELSE Len(self.qubits) + index[j]]
        rank(j) == Cardinality({k \in DOMAIN picked :
                      picked[k] < picked[j] \/ (picked[k] = picked[j] /\ k <= j)})
    IN [i \in 1..Len(index) |->
          self.qubits[picked[CHOOSE j \in DOMAIN picked : rank(j) = i] + 1]]

\* Quant.at: the selected list.
at_qubits(self, index) == [j \in 1..Len(index) |-> PyIndex(self.qubits, index[j])]

\* Mutant of reversed_qubits: the list copied without reversing it.
reversed_qubits_copy(qs) == qs

\* Quant.__reversed__: list(reversed(self.qubits)).
reversed_qubits(qs) == [i \in 1..Len(qs) |-> qs[Len(qs) + 1 - i]]

\* Quant.free: one free_qubit per contained index, in order.
RECURSIVE free_status(_, _)
free_status(st, qs) ==
    IF qs = <<>> THEN st
    ELSE free_status(engine_free_qubit(st, Head(qs)), Tail(qs))

\* Mutant of free_instrs: the group freed from its last index to its first.
free_instrs_backwards(qs) == [i \in 1..Len(qs) |-> [op |-> "free", target |-> qs[Len(qs) + 1 - i]]]

\* Quant.free: the free_qubit calls of `for qubit in self.qubits`, in order.
free_instrs(qs) == [i \in 1..Len(qs) |-> [op |-> "free", target |-> qs[i]]]

\* Process.alloc: the allocate_qubit calls of the list comprehension, in order, each
\* with the index it returned.
alloc_instrs(qs) == [i \in 1..Len(qs) |-> [op |-> "alloc", target |-> qs[i]]]

\* Quant.is_free: all(not status(qubit) for qubit in qubits).
is_free_value(st, qs) == \A i \in DOMAIN qs : ~engine_get_qubit_status(st, qs[i])

\* ------------------------------------------------- engine: deferred results
RECURSIVE Pow2(_)
Pow2(n) == IF n <= 0 THEN 1 ELSE 2 * Pow2(n - 1)

\* Low bits of a result that the engine may set in the model.
MaxBits == 2

\* The largest result over n qubits within those bits.
engine_top(n) == Pow2(IF n < MaxBits THEN n ELSE MaxBits) - 1

\* A basis state of n qubits as the engine hands it over: 64-bit words, the first
\* most significant, one per 64 qubits started; the model sets bits of the last only.
engine_words(n, x) == IF n > 64 THEN <<0, x>> ELSE <<x>>

\* Snapshots the engine may report for n qubits: a list of records, each a basis
\* state as a list of 64-bit words and an amplitude <<re, im>>. In turn: a
\* normalised one, one that needs rescaling, one with two contributions to a basis
\* state, an empty one, and one whose contributions cancel.
RawDumps(n) ==
    { << [state |-> engine_words(n, 0), amp |-> <<1, 0>>] >>,
      << [state |-> engine_words(n, 0), amp |-> <<1, 0>>],
         [state |-> engine_words(n, engine_top(n)), amp |-> <<0, 1>>] >>,
      << [state |-> engine_words(n, engine_top(n)), amp |-> <<1, 0>>],
         [state |-> engine_words(n, engine_top(n)), amp |-> <<1, 0>>] >>,
      << >>,
      << [state |-> engine_words(n, 0), amp |-> <<1, 0>>],
         [state |-> engine_words(n, 0), amp |-> <<-1, 0>>] >> }
    \cup (IF n >= 2
          THEN { << [state |-> engine_words(n, 2), amp |-> <<0, 1>>],
                    [state |-> engine_words(n, 1), amp |-> <<0, -1>>] >> }
          ELSE {})

\* Histograms the engine may report for n qubits and a shot count: one count per
\* outcome, in arrays that may be longer than the reported size.
RawSamples(n, shots) ==
    { [states |-> <<0>>, counts |-> <<shots>>, size |-> 1] }
      \cup (IF n > 0
            THEN { [states |-> <<0, Pow2(n) - 1>>, counts |-> <<1, shots - 1>>, size |-> 2],
                   [states |-> <<Pow2(n) - 1, 0>>, counts |-> <<shots, 1>>, size |-> 1] }
            ELSE {})

\* The values the engine may produce for a registered request.
engine_values(kind, n, shots) ==
    CASE kind = "measure" -> {0, engine_top(n)}
      [] kind = "dump" -> RawDumps(n)
      [] kind = "sample" -> RawSamples(n, shots)

\* What a query reports while the result is not ready.
engine_unset(kind) ==
    CASE kind = "measure" -> 0
      [] kind = "dump" -> <<>>
      [] kind = "sample" -> [states |-> <<>>, counts |-> <<>>, size |-> 0]

\* measure / dump / sample: a request registered with the engine. In live mode it
\* is executed at once (val is its value); in batch mode it waits for the flush.
\* Instructions take effect in the order issued: the request sees the qubit
\* registry as the instructions issued before it left it (seen).
engine_entry(kind, n, shots, live, val, st) ==
    [kind |-> kind, n |-> n, shots |-> shots, ready |-> live,
     val |-> IF live THEN val ELSE engine_unset(kind), seen |-> st]

\* prepare_for_execution(): every registered request becomes ready.
RECURSIVE engine_flush(_)
engine_flush(rg) ==
    IF rg = <<>> THEN {<<>>}
    ELSE LET e == Head(rg)
             heads == IF e.ready THEN {e}
                      ELSE {[e EXCEPT !.ready = TRUE, !.val = x] :
                                x \in engine_values(e.kind, e.n, e.shots)}
         IN {<<h>> \o rest : h \in heads, rest \in engine_flush(Tail(rg))}

\* ------------------------------------------------------------- Measurement
\* Width of one underlying measurement call.
ChunkWidth == 64

\* Mutant of chunk_lens: slices one qubit narrower than the stride, so that the
\* last qubit before each stride boundary is left out.
chunk_lens_narrow(n) ==
    [i \in 1..((n + ChunkWidth - 1) \div ChunkWidth) |->
        IF n - ChunkWidth * (i - 1) < ChunkWidth - 1 THEN n - ChunkWidth * (i - 1)
        ELSE ChunkWidth - 1]

\* Measurement.__init__: lengths of qubits[i : i + 64] for i in range(0, len, 64).
chunk_lens(n) ==
    [i \in 1..((n + ChunkWidth - 1) \div ChunkWidth) |->
        IF n - ChunkWidth * (i - 1) < ChunkWidth THEN n - ChunkWidth * (i - 1)
        ELSE ChunkWidth]

\* Measurement.__init__: the slices qubits[i : i + 64] themselves, one per stride.
chunks(qs) ==
    [i \in DOMAIN chunk_lens(Len(qs)) |->
        SubSeq(qs, ChunkWidth * (i - 1) + 1,
               ChunkWidth * (i - 1) + chunk_lens(Len(qs))[i])]

RECURSIVE BitOr(_, _)
BitOr(x, y) ==
    IF x = 0 THEN y
    ELSE IF y = 0 THEN x
    ELSE 2 * BitOr(x \div 2, y \div 2) + (IF x % 2 = 1 \/ y % 2 = 1 THEN 1 ELSE 0)

\* Measurement._check: value <<= len(qubit); value |= chunk value, over the chunks.
RECURSIVE measurement_fold(_, _, _)
measurement_fold(acc, vals, lens) ==
    IF vals = <<>> \/ lens = <<>> THEN acc
    ELSE measurement_fold(BitOr(IF acc = 0 THEN 0 ELSE acc * Pow2(Head(lens)), Head(vals)),
                          Tail(vals), Tail(lens))

\* Mutant of measurement_available: the readiness flags ignored.
measurement_available_ignored(flags) == TRUE

\* Mutant of measurement_available: no readiness report is taken as ready.
measurement_available_never(flags) == FALSE

\* Measurement._check: all(map(lambda a: a.value, available)).
measurement_available(flags) == \A i \in DOMAIN flags : flags[i]

\* Mutant of check_needed: the cache test left out.
check_needed_always(value) == TRUE

\* _check of all three kinds: `if self._value is None`.
check_needed(value) == value = Unknown

\* Measurement._check. zip(*()) over no index yields nothing to unpack.
Measurement_check(self, rg) ==
    IF ~check_needed(self.value)
    THEN [err |-> NoErr, value |-> self.value, queries |-> 0]
    ELSE IF self.indexes = <<>>
    THEN [err |-> ValueError("not enough values to unpack (expected 2, got 0)"),
          value |-> self.value, queries |-> 0]
    ELSE LET flags == [i \in DOMAIN self.indexes |-> rg[self.indexes[i] + 1].ready]
             vals == [i \in DOMAIN self.indexes |-> rg[self.indexes[i] + 1].val]
         IN [err |-> NoErr,
             value |-> IF measurement_available(flags)
                       THEN Known(measurement_fold(0, vals, self.lens))
                       ELSE self.value,
             queries |-> Len(self.indexes)]

\* ------------------------------------------------------------ QuantumState
\* int("".join(f"{state[j]:064b}" ...), 2): the words, first most significant.
RECURSIVE dump_state(_, _)
dump_state(acc, words) ==
    IF words = <<>> THEN acc
    ELSE dump_state((IF acc = 0 THEN 0 ELSE acc * Pow2(ChunkWidth)) + Head(words),
                    Tail(words))

\* Mutant of dump_accumulate: a later record of a basis state replaces the amplitude.
RECURSIVE dump_accumulate_overwrite(_, _)
dump_accumulate_overwrite(items, records) ==
    IF records = <<>> THEN items
    ELSE LET rec == Head(records)
             st == dump_state(0, rec.state)
             at == {i \in DOMAIN items : items[i].state = st}
         IN dump_accumulate_overwrite(
                IF at = {}
                THEN Append(items, [state |-> st, amp |-> rec.amp])
                ELSE [i \in DOMAIN items |->
                        IF i \in at THEN [items[i] EXCEPT !.amp = rec.amp] ELSE items[i]],
                Tail(records))

\* states[state] += amplitude on a defaultdict(complex): items in insertion order.
RECURSIVE dump_accumulate(_, _)
dump_accumulate(items, records) ==
    IF records = <<>> THEN items
    ELSE LET rec == Head(records)
             st == dump_state(0, rec.state)
             at == {i \in DOMAIN items : items[i].state = st}
         IN dump_accumulate(
                IF at = {}
                THEN Append(items, [state |-> st, amp |-> rec.amp])
                ELSE [i \in DOMAIN items |->
                        IF i \in at
                        THEN [items[i] EXCEPT !.amp = <<@[1] + rec.amp[1], @[2] + rec.amp[2]>>]
                        ELSE items[i]],
                Tail(records))

\* sum(map(lambda a: abs(a) ** 2, states.values()))
RECURSIVE dump_mass(_)
dump_mass(items) ==
    IF items = <<>> THEN 0
    ELSE Head(items).amp[1] * Head(items).amp[1] + Head(items).amp[2] * Head(items).amp[2]
         + dump_mass(Tail(items))

\* abs(p - 1.0) < 1e-10, on amplitudes that are whole numbers.
dump_normalized(p) == p = 1

\* The resolved mapping: each amplitude is amp / sqrt(den).
dump_resolve(items) ==
    LET p == dump_mass(items) IN
    IF dump_normalized(p)
    THEN [i \in DOMAIN items |-> [state |-> items[i].state, amp |-> items[i].amp, den |-> 1]]
    ELSE [i \in DOMAIN items |-> [state |-> items[i].state, amp |-> items[i].amp, den |-> p]]

\* QuantumState._check
QuantumState_check(self, rg) ==
    IF ~check_needed(self.value)
    THEN [err |-> NoErr, value |-> self.value, queries |-> 0]
    ELSE LET e == rg[self.indexes[1] + 1]
             items == dump_accumulate(<<>>, e.val)
         IN IF ~e.ready
            THEN [err |-> NoErr, value |-> self.value, queries |-> 1]
            ELSE IF items # <<>> /\ ~dump_normalized(dump_mass(items)) /\ dump_mass(items) = 0
            THEN [err |-> ZeroDivisionError, value |-> self.value,
                  queries |-> 1 + Len(e.val)]
            ELSE [err |-> NoErr, value |-> Known(dump_resolve(items)),
                  queries |-> 1 + Len(e.val)]

\* ----------------------------------------------------------------- Samples
\* Mutant of samples_dict: only the first pair of the arrays is kept.
samples_dict_first(items, states, counts) ==
    IF states = <<>> \/ counts = <<>> THEN items
    ELSE Append(items, [state |-> Head(states), count |-> Head(counts)])

\* dict(zip(states[: size], count[: size])): a later equal key overwrites the count.
RECURSIVE samples_dict(_, _, _)
samples_dict(items, states, counts) ==
    IF states = <<>> \/ counts = <<>> THEN items
    ELSE LET at == {i \in DOMAIN items : items[i].state = Head(states)}
         IN samples_dict(
                IF at = {}
                THEN Append(items, [state |-> Head(states), count |-> Head(counts)])
                ELSE [i \in DOMAIN items |->
                        IF i \in at THEN [items[i] EXCEPT !.count = Head(counts)]
                        ELSE items[i]],
                Tail(states), Tail(counts))

\* Samples._check
Samples_check(self, rg) ==
    IF ~check_needed(self.value)
    THEN [err |-> NoErr, value |-> self.value, queries |-> 0]
    ELSE LET e == rg[self.indexes[1] + 1] IN
         IF ~e.ready
         THEN [err |-> NoErr, value |-> self.value, queries |-> 1]
         ELSE [err |-> NoErr,
               value |-> Known(samples_dict(<<>>, SubSeq(e.val.states, 1, e.val.size),
                                            SubSeq(e.val.counts, 1, e.val.size))),
               queries |-> 1]

\* Failure reported by the engine for a result query.
EngineQueryError == [type |-> "EngineQueryError", msg |-> "engine query failed"]

\* self._check() of a deferred result, by its class. The queries are made with
\* nothing around them that catches: the first one the engine fails ends the call.
check(self, rg) ==
    IF check_needed(self.value) /\ self.indexes # <<>> /\ ~engine_ok
    THEN [err |-> EngineQueryError, value |-> self.value, queries |-> 1]
    ELSE CASE self.kind = "Measurement" -> Measurement_check(self, rg)
           [] self.kind = "QuantumState" -> QuantumState_check(self, rg)
           [] self.kind = "Samples" -> Samples_check(self, rg)

\* Mutant of raised: get() catches what _check raised and goes on.
raised_caught(err) == FALSE

\* get(): an exception of self._check() leaves get() at once.
raised(err) == err # NoErr

\* Mutant of get_forces: execute() never called.
get_forces_never(value) == FALSE

\* get() of all three kinds: `if self._value is None: self.process.execute()`.
get_forces(value) == value = Unknown

\* ----------------------------------------------------------------- actions
\* What the caller observed of the last operation: the operation and its operands
\* (v, v2: operand variables or result number; w: the variable assigned; arg: the
\* other argument), the exception raised (NoErr: it returned), the value returned,
\* r: the number of the deferred result read (0: none), and the engine traffic it
\* caused (flushes: prepare_for_execution calls; queries: result queries; issued:
\* instructions issued; instrs: the instructions the engine accepted, in the order
\* they were issued).
Outcome(op, p, v, v2, w, arg, err, ret) ==
    [op |-> op, p |-> p, v |-> v, v2 |-> v2, w |-> w, arg |-> arg, err |-> err,
     ret |-> ret, r |-> 0, flushes |-> 0, queries |-> 0, issued |-> 0, instrs |-> <<>>]

\* One instruction handed to the engine.
Instr(op, target) == [op |-> op, target |-> target]

\* w = p.alloc(num_qubits)
alloc(p, num_qubits, w) ==
    /\ Len(status[p]) + num_qubits <= MaxQubits
    /\ IF alloc_invalid(num_qubits)
       THEN /\ last' = Outcome("alloc", p, None, None, w, num_qubits,
                               ValueError("Cannot allocate less than 1 qubit"), None)
            /\ UNCHANGED <<status, quants>>
       ELSE IF alloc_calls(num_qubits) > 0 /\ ~engine_accepts(p)
       THEN /\ last' = [Outcome("alloc", p, None, None, w, num_qubits,
                                ProcessAlreadyExecutedError, None) EXCEPT !.issued = 1]
            /\ UNCHANGED <<status, quants>>
       ELSE LET k == alloc_calls(num_qubits)
                q == Quant(alloc_qubits_index(status[p], k), p)
            IN /\ status' = [status EXCEPT ![p] = alloc_status(status[p], k)]
               /\ quants' = [quants EXCEPT ![w] = q]
               /\ last' = [Outcome("alloc", p, None, None, w, num_qubits, NoErr, None)
                           EXCEPT !.issued = IF k > 0 THEN k ELSE 0,
                                  !.instrs = alloc_instrs(q.qubits)]
    /\ UNCHANGED <<mode, executed, reg, results, buffers, sampled, defaults, engine_ok>>

\* quants[v].free()
Quant_free(v) ==
    LET self == quants[v] IN
    /\ self # NoQuant
    /\ IF self.qubits # <<>> /\ ~engine_accepts(self.process)
       THEN /\ last' = [Outcome("free", self.process, v, None, None, None,
                                ProcessAlreadyExecutedError, None) EXCEPT !.issued = 1]
            /\ UNCHANGED status
       ELSE /\ status' = [status EXCEPT ![self.process] = free_status(@, self.qubits)]
            /\ last' = [Outcome("free", self.process, v, None, None, None, NoErr, None)
                        EXCEPT !.issued = Len(self.qubits),
                               !.instrs = free_instrs(self.qubits)]
    /\ UNCHANGED <<mode, executed, reg, quants, results, buffers, sampled, defaults, engine_ok>>

\* quants[v].is_free()
Quant_is_free(v) ==
    LET self == quants[v] IN
    /\ self # NoQuant
    /\ last' = Outcome("is_free", self.process, v, None, None, None, NoErr,
                       is_free_value(status[self.process], self.qubits))
    /\ UNCHANGED <<mode, executed, status, reg, quants, results, buffers, sampled, defaults, engine_ok>>

RuntimeError(m) == [type |-> "RuntimeError", msg |-> m]

\* Mutant of exit_leaks: the scope exit checks nothing.
exit_leaks_never(st, qs) == FALSE

\* Quant.__exit__: `if not self.is_free()`.
exit_leaks(st, qs) == ~is_free_value(st, qs)

\* The end of `with quants[v]: ...`: quants[v].__exit__(type, value, tb)
Quant_exit(v) ==
    LET self == quants[v] IN
    /\ self # NoQuant
    /\ last' = Outcome("__exit__", self.process, v, None, None, None,
                       IF exit_leaks(status[self.process], self.qubits)
                       THEN RuntimeError("non-free quant at the end of scope")
                       ELSE NoErr,
                       None)
    /\ UNCHANGED <<mode, executed, status, reg, quants, results, buffers, sampled, defaults, engine_ok>>

\* w = quants[v] + quants[v2]
Quant_add(v, v2, w) ==
    LET self == quants[v]
        other == quants[v2]
    IN
    /\ self # NoQuant /\ other # NoQuant
    /\ Len(self.qubits) + Len(other.qubits) <= MaxLen
    /\ IF ~add_same_process(self, other)
       THEN /\ last' = Outcome("add", self.process, v, v2, w, None,
                               ValueError("Cannot concatenate qubits from different processes"),
                               None)
            /\ UNCHANGED quants
       ELSE /\ quants' = [quants EXCEPT ![w] = Quant(add_qubits(self, other), self.process)]
            /\ last' = Outcome("add", self.process, v, v2, w, None, NoErr, None)
    /\ UNCHANGED <<mode, executed, status, reg, results, buffers, sampled, defaults, engine_ok>>

\* w = quants[v].at(index)
Quant_at(v, index, w) ==
    LET self == quants[v] IN
    /\ self # NoQuant
    /\ IF \E j \in DOMAIN index : ~PyInRange(self.qubits, index[j])
       THEN /\ last' = Outcome("at", self.process, v, None, w, index, IndexError, None)
            /\ UNCHANGED quants
       ELSE /\ quants' = [quants EXCEPT ![w] = Quant(at_qubits(self, index), self.process)]
            /\ last' = Outcome("at", self.process, v, None, w, index, NoErr, None)
    /\ UNCHANGED <<mode, executed, status, reg, results, buffers, sampled, defaults, engine_ok>>

\* w = reversed(quants[v])
Quant_reversed(v, w) ==
    LET self == quants[v] IN
    /\ self # NoQuant
    /\ quants' = [quants EXCEPT ![w] = Quant(reversed_qubits(self.qubits), self.process)]
    /\ last' = Outcome("reversed", self.process, v, None, w, None, NoErr, None)
    /\ UNCHANGED <<mode, executed, status, reg, results, buffers, sampled, defaults, engine_ok>>

\* The keys of q[key]: an integer position, or slice(start, stop, step) with each
\* part optional.
IntKey(i) == [kind |-> "int", i |-> i, start |-> Unknown, stop |-> Unknown, step |-> Unknown]
SliceKey(start, stop, step) ==
    [kind |-> "slice", i |-> 0, start |-> start, stop |-> stop, step |-> step]

\* A slice bound given by the caller, brought into the list as list slicing does.
slice_adjust(x, len, step) ==
    IF x < 0
    THEN (IF x + len < 0 THEN (IF step < 0 THEN -1 ELSE 0) ELSE x + len)
    ELSE IF x >= len THEN (IF step < 0 THEN len - 1 ELSE len) ELSE x

\* range(start, stop, step)
RECURSIVE py_range(_, _, _)
py_range(start, stop, step) ==
    IF (step > 0 /\ start >= stop) \/ (step < 0 /\ start <= stop) THEN <<>>
    ELSE <<start>> \o py_range(start + step, stop, step)

\* The 0-based positions list slicing selects from a list of len elements.
slice_positions(key, len) ==
    LET step == IF key.step = Unknown THEN 1 ELSE key.step[1]
        start == IF key.start = Unknown
                 THEN (IF step < 0 THEN len - 1 ELSE 0)
                 ELSE slice_adjust(key.start[1], len, step)
        stop == IF key.stop = Unknown
                THEN (IF step < 0 THEN -1 ELSE len)
                ELSE slice_adjust(key.stop[1], len, step)
    IN py_range(start, stop, step)

\* Mutant of getitem_qubits: the key itself in place of the index it selects.
getitem_qubits_position(qs, key) ==
    IF key.kind = "int" THEN <<IF key.i >= 0 THEN key.i ELSE Len(qs) + key.i>>
    ELSE slice_positions(key, Len(qs))

\* qubits = self.qubits.__getitem__(key); qubits if isinstance(qubits, list) else
\* [qubits], for a key that list.__getitem__ accepts.
getitem_qubits(qs, key) ==
    IF key.kind = "int" THEN <<PyIndex(qs, key.i)>>
    ELSE LET pos == slice_positions(key, Len(qs)) IN [j \in DOMAIN pos |-> qs[pos[j] + 1]]

\* The error of list.__getitem__(key), if it raises.
getitem_error(qs, key) ==
    IF key.kind = "int"
    THEN (IF PyInRange(qs, key.i) THEN NoErr ELSE IndexError)
    ELSE IF key.step = Known(0) THEN ValueError("slice step cannot be zero") ELSE NoErr

\* w = quants[v][key]
Quant_getitem(v, key, w) ==
    LET self == quants[v] IN
    /\ self # NoQuant
    /\ IF getitem_error(self.qubits, key) # NoErr
       THEN /\ last' = Outcome("getitem", self.process, v, None, w, key,
                               getitem_error(self.qubits, key), None)
            /\ UNCHANGED quants
       ELSE /\ quants' = [quants EXCEPT
                             ![w] = Quant(getitem_qubits(self.qubits, key), self.process)]
            /\ last' = Outcome("getitem", self.process, v, None, w, key, NoErr, None)
    /\ UNCHANGED <<mode, executed, status, reg, results, buffers, sampled, defaults, engine_ok>>

\* _QuantIter.__next__ until StopIteration: self.q[self.idx] for idx = 0 .. size - 1,
\* size being the length when the iterator was made.
RECURSIVE QuantIter_next(_, _, _)
QuantIter_next(q, idx, size) ==
    IF idx + 1 < size
    THEN <<Quant(getitem_qubits(q.qubits, IntKey(idx + 1)), q.process)>>
             \o QuantIter_next(q, idx + 1, size)
    ELSE <<>>

\* list(iter(quants[v])): the groups a `for` loop over quants[v] sees.
Quant_iter(v) ==
    LET self == quants[v] IN
    /\ self # NoQuant
    /\ last' = Outcome("iter", self.process, v, None, None, None, NoErr,
                       QuantIter_next(self, -1, Len(self.qubits)))
    /\ UNCHANGED <<mode, executed, status, reg, quants, results, buffers, sampled, defaults,
                   engine_ok>>

\* An opaque gate applied to quants[v]: an instruction issued to the engine.
gate(v) ==
    LET self == quants[v] IN
    /\ self # NoQuant
    /\ self.qubits # <<>>
    /\ last' = [Outcome("gate", self.process, v, None, None, None,
                        IF engine_accepts(self.process) THEN NoErr
                        ELSE ProcessAlreadyExecutedError, None)
                EXCEPT !.issued = 1,
                       !.instrs = IF engine_accepts(self.process)
                                  THEN <<Instr("gate", self.qubits)>> ELSE <<>>]
    /\ UNCHANGED <<mode, executed, status, reg, quants, results, buffers, sampled, defaults, engine_ok>>

\* p.execute(): prepare_for_execution()
execute(p) ==
    /\ \E rg \in engine_flush(reg[p]) : reg' = [reg EXCEPT ![p] = rg]
    /\ executed' = [executed EXCEPT ![p] = TRUE]
    /\ last' = [Outcome("execute", p, None, None, None, None, NoErr, None)
                EXCEPT !.flushes = 1]
    /\ UNCHANGED <<mode, status, quants, results, buffers, sampled, defaults, engine_ok>>

\* The values the engine may give the sub-measurements of chunks of these lengths.
RECURSIVE measure_values(_)
measure_values(lens) ==
    IF lens = <<>> THEN {<<>>}
    ELSE {<<x>> \o rest : x \in engine_values("measure", Head(lens), 0),
                          rest \in measure_values(Tail(lens))}

\* A deferred-result object whose cache is filled at construction.
Deferred_preset(kind, p, lens, indexes) ==
    [kind |-> kind, process |-> p, lens |-> lens, indexes |-> indexes, value |-> Known(<<>>)]

\* A deferred-result object.
Deferred(kind, p, lens, indexes) ==
    [kind |-> kind, process |-> p, lens |-> lens, indexes |-> indexes, value |-> Unknown]

\* Measurement(quants[v]): one measure call per chunk of 64 qubits.
Measurement_init(v) ==
    LET qubits == quants[v]
        p == qubits.process
        lens == chunk_lens(Len(qubits.qubits))
    IN
    /\ qubits # NoQuant
    /\ Len(results) < MaxResults
    /\ IF lens # <<>> /\ ~engine_accepts(p)
       THEN /\ last' = [Outcome("Measurement", p, v, None, None, None,
                                ProcessAlreadyExecutedError, None) EXCEPT !.issued = 1]
            /\ UNCHANGED <<reg, results>>
       ELSE /\ \E vals \in measure_values(lens) :
                 reg' = [reg EXCEPT ![p] = @ \o
                            [i \in DOMAIN lens |->
                                engine_entry("measure", lens[i], 0, mode[p] = "live", vals[i],
                                             status[p])]]
            /\ results' = Append(results,
                                 Deferred("Measurement", p, lens,
                                          [i \in DOMAIN lens |-> Len(reg[p]) + i - 1]))
            /\ last' = [Outcome("Measurement", p, v, None, None, None, NoErr, None)
                        EXCEPT !.r = Len(results) + 1, !.issued = Len(lens),
                               !.instrs = [i \in DOMAIN chunks(qubits.qubits) |->
                                              Instr("measure", chunks(qubits.qubits)[i])]]
    /\ UNCHANGED <<mode, executed, status, quants, buffers, sampled, defaults, engine_ok>>

\* QuantumState(quants[v]) and Samples(quants[v], shots): one dump / sample call.
Request_init(v, cls, kind, shots) ==
    LET qubits == quants[v]
        p == qubits.process
        n == Len(qubits.qubits)
    IN
    /\ qubits # NoQuant
    /\ Len(results) < MaxResults
    /\ IF ~engine_accepts(p)
       THEN /\ last' = [Outcome(cls, p, v, None, None, shots,
                                ProcessAlreadyExecutedError, None) EXCEPT !.issued = 1]
            /\ UNCHANGED <<reg, results>>
       ELSE /\ \E val \in engine_values(kind, n, shots) :
                 reg' = [reg EXCEPT ![p] =
                            Append(@, engine_entry(kind, n, shots, mode[p] = "live", val,
                                                    status[p]))]
            /\ results' = Append(results, Deferred(cls, p, <<n>>, <<Len(reg[p])>>))
            /\ last' = [Outcome(cls, p, v, None, None, shots, NoErr, None)
                        EXCEPT !.r = Len(results) + 1, !.issued = 1,
                               !.instrs = <<Instr(kind, qubits.qubits)>>]
    /\ UNCHANGED <<mode, executed, status, quants, buffers, sampled, defaults, engine_ok>>

QuantumState_init(v) == Request_init(v, "QuantumState", "dump", 0)

Samples_init(v, shots) == Request_init(v, "Samples", "sample", shots)

\* The non-forcing accessors: self._check(); return self._value.
Read(r, cls, op) ==
    LET self == results[r]
        c == check(self, reg[self.process])
    IN
    /\ self.kind = cls
    /\ results' = [results EXCEPT ![r].value = c.value]
    /\ last' = [Outcome(op, self.process, None, None, None, None, c.err,
                        IF c.err = NoErr THEN c.value ELSE Unknown)
                EXCEPT !.r = r, !.queries = c.queries]
    /\ UNCHANGED <<mode, executed, status, reg, quants, buffers, sampled, defaults, engine_ok>>

Measurement_value(r) == Read(r, "Measurement", "Measurement.value")

QuantumState_states(r) == Read(r, "QuantumState", "QuantumState.states")

Samples_value(r) == Read(r, "Samples", "Samples.value")

\* get(): self._check(); if the value is None: self.process.execute(); return the
\* non-forcing accessor's value.
Get(r, cls, op) ==
    LET self == results[r]
        p == self.process
        c1 == check(self, reg[p])
    IN
    /\ self.kind = cls
    /\ IF raised(c1.err)
       THEN /\ results' = [results EXCEPT ![r].value = c1.value]
            /\ last' = [Outcome(op, p, None, None, None, None, c1.err, Unknown)
                        EXCEPT !.r = r, !.queries = c1.queries]
            /\ UNCHANGED <<executed, reg>>
       ELSE IF get_forces(c1.value)
       THEN \E rg \in engine_flush(reg[p]) :
                LET c2 == check([self EXCEPT !.value = c1.value], rg) IN
                /\ reg' = [reg EXCEPT ![p] = rg]
                /\ executed' = [executed EXCEPT ![p] = TRUE]
                /\ results' = [results EXCEPT ![r].value = c2.value]
                /\ last' = [Outcome(op, p, None, None, None, None, c2.err,
                                    IF c2.err = NoErr THEN c2.value ELSE Unknown)
                            EXCEPT !.r = r, !.flushes = 1,
                                   !.queries = c1.queries + c2.queries]
       ELSE LET c2 == check([self EXCEPT !.value = c1.value], reg[p]) IN
            /\ results' = [results EXCEPT ![r].value = c2.value]
            /\ last' = [Outcome(op, p, None, None, None, None, c2.err,
                                IF c2.err = NoErr THEN c2.value ELSE Unknown)
                        EXCEPT !.r = r, !.queries = c1.queries + c2.queries]
            /\ UNCHANGED <<executed, reg>>
    /\ UNCHANGED <<mode, status, quants, buffers, sampled, defaults, engine_ok>>

Measurement_get(r) == Get(r, "Measurement", "Measurement.get")

QuantumState_get(r) == Get(r, "QuantumState", "QuantumState.get")

Samples_get(r) == Get(r, "Samples", "Samples.get")

\* QuantumState.probabilities: abs(amplitude) ** 2 per basis state, as num / den.
probabilities_value(items) ==
    [i \in DOMAIN items |->
        [state |-> items[i].state,
         num |-> items[i].amp[1] * items[i].amp[1] + items[i].amp[2] * items[i].amp[2],
         den |-> items[i].den]]

\* list(d) of a dict d: its keys, in insertion order.
dict_keys(items) == [i \in DOMAIN items |-> items[i].state]

\* sample() calls on resolved snapshots the model follows.
MaxSampleCalls == 3

\* Resolution of the generator's draws: random() is a multiple of 1 / RngDen.
RngDen == 4

\* Mutant of rng_random: one generator shared by all calls, its stream going on
\* where the previous call left it.
rng_random_shared(seed, j) == ((2 * seed + 1) * (j + Len(sampled)) + seed) % RngDen

\* random.Random(seed).random(), the j-th draw, in units of 1 / RngDen.
rng_random(seed, j) == ((2 * seed + 1) * j + seed) % RngDen

\* itertools.accumulate(weights)
RECURSIVE accumulate(_, _)
accumulate(acc, ws) ==
    IF ws = <<>> THEN <<>>
    ELSE <<acc + Head(ws)>> \o accumulate(acc + Head(ws), Tail(ws))

\* bisect.bisect(cum, u * total / RngDen, 0, hi): the first position in lo..hi - 1
\* (0-based) whose entry exceeds the draw, else hi.
bisect(cum, u, total, hi) ==
    LET above == {i \in 0..(hi - 1) : cum[i + 1] * RngDen > u * total}
    IN IF above = {} THEN hi ELSE CHOOSE i \in above : \A j \in above : i <= j

\* The histogram loop of QuantumState.sample over the drawn states.
RECURSIVE sample_count(_, _)
sample_count(result, shots) ==
    IF shots = <<>> THEN result
    ELSE LET at == {i \in DOMAIN result : result[i].state = Head(shots)}
         IN sample_count(
                IF at = {} THEN Append(result, [state |-> Head(shots), count |-> 1])
                ELSE [i \in DOMAIN result |->
                        IF i \in at THEN [result[i] EXCEPT !.count = @ + 1] ELSE result[i]],
                Tail(shots))

\* random.Random(seed).choices(population, weights, k=k)
choices(population, weights, k, seed) ==
    LET cum == accumulate(0, weights)
    IN IF cum = <<>>
       THEN [err |-> IndexError, value |-> <<>>]
       ELSE IF cum[Len(cum)] <= 0
       THEN [err |-> ValueError("Total of weights must be greater than zero"),
             value |-> <<>>]
       ELSE [err |-> NoErr,
             value |-> [j \in 1..k |->
                          population[bisect(cum, rng_random(seed, j), cum[Len(cum)],
                                            Len(cum) - 1) + 1]]]

\* QuantumState.sample: rng.choices(list(self.states), list(self.probabilities), k=shots)
\* and the histogram of what it drew.
sample_value(items, shots, seed) ==
    LET drawn == choices(dict_keys(items), dict_keys(probabilities_value(items)),
                         shots, seed)
    IN IF drawn.err # NoErr
       THEN [err |-> drawn.err, value |-> Unknown]
       ELSE [err |-> NoErr, value |-> Known(sample_count(<<>>, drawn.value))]

\* f"{state:0{size}b}": the binary digits, most significant first, at least size long.
RECURSIVE to_bits(_, _)
to_bits(state, size) ==
    IF state <= 1 /\ size <= 1 THEN <<state>>
    ELSE Append(to_bits(state \div 2, size - 1), state % 2)

\* Mutant of sorted_items: the items left in the dict's insertion order.
sorted_items_unsorted(items) == items

\* sorted(self._states.items(), key=lambda k: k[0])
RECURSIVE sorted_items(_)
sorted_items(items) ==
    IF items = <<>> THEN <<>>
    ELSE LET m == CHOOSE i \in DOMAIN items :
                     \A j \in DOMAIN items :
                        items[i].state < items[j].state
                        \/ (items[i].state = items[j].state /\ i <= j)
         IN <<items[m]>> \o
            sorted_items([k \in 1..(Len(items) - 1) |-> IF k < m THEN items[k] ELSE items[k + 1]])

\* QuantumState.show(None): one line per basis state, label in binary.
show_value(items, size) ==
    LET srt == sorted_items(items) IN
    [i \in DOMAIN srt |->
        [label |-> to_bits(srt[i].state, size), amp |-> srt[i].amp, den |-> srt[i].den]]

\* What probabilities, sample and show compute from the resolved self._states.
derived_value(op, items, size, arg) ==
    CASE op = "QuantumState.probabilities" ->
            [err |-> NoErr, value |-> Known(probabilities_value(items))]
      [] op = "QuantumState.sample" -> sample_value(items, arg[1], arg[2])
      [] op = "QuantumState.show" ->
            [err |-> NoErr, value |-> Known(show_value(items, size))]

\* probabilities, sample and show: self._check(), None while unresolved, else the
\* value computed from self._states.
Derive(r, op, arg) ==
    LET self == results[r]
        c == check(self, reg[self.process])
        d == IF c.err # NoErr THEN [err |-> c.err, value |-> Unknown]
             ELSE IF c.value = Unknown THEN [err |-> NoErr, value |-> Unknown]
             ELSE derived_value(op, c.value[1], self.lens[1], arg)
    IN
    /\ self.kind = "QuantumState"
    /\ results' = [results EXCEPT ![r].value = c.value]
    /\ last' = [Outcome(op, self.process, None, None, None, arg, d.err, d.value)
                EXCEPT !.r = r, !.queries = c.queries]
    /\ IF op = "QuantumState.sample" /\ c.err = NoErr /\ c.value # Unknown
       THEN /\ Len(sampled) < MaxSampleCalls
            /\ sampled' = Append(sampled, [r |-> r, shots |-> arg[1], seed |-> arg[2],
                                           err |-> d.err, ret |-> d.value])
       ELSE UNCHANGED sampled
    /\ UNCHANGED <<mode, executed, status, reg, quants, buffers, defaults, engine_ok>>

QuantumState_probabilities(r) == Derive(r, "QuantumState.probabilities", None)

QuantumState_sample(r, shots, seed) == Derive(r, "QuantumState.sample", <<shots, seed>>)

QuantumState_show(r) == Derive(r, "QuantumState.show", None)

\* str(self.size): the decimal digits of n, the most significant first.
RECURSIVE str_digits(_)
str_digits(n) == IF n < 10 THEN <<n>> ELSE Append(str_digits(n \div 10), n % 10)

\* int(f[1:]): the number a string of decimal digits writes; the empty string is
\* no literal.
RECURSIVE int_digits(_)
int_digits(ds) ==
    IF ds = <<>> THEN 0 ELSE 10 * int_digits(SubSeq(ds, 1, Len(ds) - 1)) + ds[Len(ds)]

\* A format string as format_str.split(":") sees it: one piece per segment, its
\* first character f and the digits after it.
Piece(f, digits) == [f |-> f, digits |-> digits]

\* if format_str in ("b", "i"): format_str += str(self.size)
format_sized(format_str, size) ==
    IF Len(format_str) = 1 /\ format_str[1].digits = <<>>
    THEN <<Piece(format_str[1].f, str_digits(size))>>
    ELSE format_str

\* The loop over the pieces: (b, count, count + size) for each, count running.
RECURSIVE format_fmt(_, _)
format_fmt(pieces, count) ==
    IF pieces = <<>> THEN <<>>
    ELSE LET size == int_digits(Head(pieces).digits) IN
         <<[f |-> Head(pieces).f, begin |-> count, end |-> count + size]>>
             \o format_fmt(Tail(pieces), count + size)

\* The segments show() cuts a label into, or the ValueError of int('').
show_fmt(format_str, size) ==
    LET pieces == format_sized(format_str, size)
        fmt == format_fmt(pieces, 0)
        count == IF fmt = <<>> THEN 0 ELSE fmt[Len(fmt)].end
    IN
    IF \E i \in DOMAIN pieces : pieces[i].digits = <<>>
    THEN [err |-> ValueError("invalid literal for int() with base 10: ''"), fmt |-> <<>>]
    ELSE [err |-> NoErr,
          fmt |-> IF count < size
                  THEN Append(fmt, [f |-> "b", begin |-> count, end |-> size])
                  ELSE fmt]

\* state[begin:end] of a string: both ends are cut at the string's length.
str_slice(state, begin, end) ==
    SubSeq(state, (IF begin < Len(state) THEN begin ELSE Len(state)) + 1,
                  IF end < Len(state) THEN end ELSE Len(state))

\* int(s, base=2) of a non-empty string of binary digits.
RECURSIVE int_base2(_)
int_base2(bits) ==
    IF bits = <<>> THEN 0 ELSE 2 * int_base2(SubSeq(bits, 1, Len(bits) - 1)) + bits[Len(bits)]

\* fmt_ket(state, begin, end, f): the slice as it is for "b", its value for "i";
\* int('', base=2) raises.
fmt_ket(state, begin, end, f) ==
    LET s == str_slice(state, begin, end) IN
    IF f = "b" THEN [err |-> NoErr, f |-> "b", bits |-> s, val |-> 0]
    ELSE IF s = <<>>
    THEN [err |-> ValueError("invalid literal for int() with base 2: ''"),
          f |-> "i", bits |-> <<>>, val |-> 0]
    ELSE [err |-> NoErr, f |-> "i", bits |-> <<>>, val |-> int_base2(s)]

\* show(format_str) on resolved states: the lines in ascending order of the state,
\* each label cut into the segments of fmt.
show_format(items, size, format_str) ==
    LET parsed == show_fmt(format_str, size)
        fmt == parsed.fmt
        srt == sorted_items(items)
        kets == [i \in DOMAIN srt |->
                    [k \in DOMAIN fmt |->
                        fmt_ket(to_bits(srt[i].state, size), fmt[k].begin, fmt[k].end, fmt[k].f)]]
    IN
    IF parsed.err # NoErr THEN [err |-> parsed.err, value |-> Unknown]
    ELSE IF \E i \in DOMAIN kets : \E k \in DOMAIN fmt : kets[i][k].err # NoErr
    THEN [err |-> ValueError("invalid literal for int() with base 2: ''"), value |-> Unknown]
    ELSE [err |-> NoErr,
          value |-> Known([i \in DOMAIN srt |->
                              [label |-> [k \in DOMAIN fmt |->
                                             [f |-> kets[i][k].f, bits |-> kets[i][k].bits,
                                              val |-> kets[i][k].val]],
                               amp |-> srt[i].amp, den |-> srt[i].den]])]

\* s = d.show(format_str) with a format string: self._check(), None while
\* unresolved, else the formatted lines.
QuantumState_show_format(r, format_str) ==
    LET self == results[r]
        c == check(self, reg[self.process])
        d == IF c.err # NoErr THEN [err |-> c.err, value |-> Unknown]
             ELSE IF c.value = Unknown THEN [err |-> NoErr, value |-> Unknown]
             ELSE show_format(c.value[1], self.lens[1], format_str)
    IN
    /\ self.kind = "QuantumState"
    /\ results' = [results EXCEPT ![r].value = c.value]
    /\ last' = [Outcome("QuantumState.show(format)", self.process, None, None, None,
                        format_str, d.err, d.value)
                EXCEPT !.r = r, !.queries = c.queries]
    /\ UNCHANGED <<mode, executed, status, reg, quants, buffers, sampled, defaults,
                   engine_ok>>

\* ----------------------------------------------------------- buffer channel
\* Process.__init__: the initial capacities of the two retrieval buffers.
metadata_buffer_size == 512
instructions_buffer_size == 2048

\* Engine calls one retrieval may make before Python's recursion limit ends it.
MaxCalls == 3

RecursionError == [type |-> "RecursionError", msg |-> "maximum recursion depth exceeded"]

\* Mutant of Buffer: the array made one byte shorter than the capacity recorded.
Buffer_short(size) == [size |-> size, len |-> size - 1, data |-> [payload |-> 0, n |-> 0]]

\* self._x_buffer_size = size; self._x_buffer = (c_uint8 * size)(): the capacity
\* recorded (size) and a zeroed array of that length (len). data tells what the buffer holds: its first
\* n bytes are the first n bytes of the payload of `payload` bytes.
Buffer(size) == [size |-> size, len |-> size, data |-> [payload |-> 0, n |-> 0]]

Min(x, y) == IF x <= y THEN x ELSE y

\* instructions_json / metadata_json(buffer, capacity): the engine writes what fits
\* of its payload into the buffer and reports the payload's size.
engine_json(buf, payload) ==
    [buf EXCEPT !.data = [payload |-> payload, n |-> Min(payload, buf.size)]]

\* Mutant of buffer_overflow: the reported size never compared with the capacity.
buffer_overflow_unchecked(write_size, size) == FALSE

\* `if write_size.value > self._metadata_buffer_size`
buffer_overflow(write_size, size) == write_size > size

\* Mutant of buffer_regrown: the new capacity one byte short of the reported size.
buffer_regrown_short(write_size) == write_size - 1

\* `self._metadata_buffer_size = write_size.value + 1`
buffer_regrown(write_size) == write_size + 1

\* bytearray(buffer[: write_size]): at most the buffer's bytes, of which the first
\* n are the payload's.
buffer_slice(buf, write_size) ==
    [payload |-> buf.data.payload,
     n |-> Min(write_size, buf.data.n),
     len |-> Min(write_size, buf.size)]

\* The body of get_instructions / get_metadata, the recursion included. reports are
\* the payload sizes the engine has at its successive calls; calls lists, per engine
\* call made, the capacity passed and the size reported.
RECURSIVE retrieve(_, _, _)
retrieve(buf, reports, calls) ==
    LET write_size == Head(reports)
        written == engine_json(buf, write_size)
        made == Append(calls, [capacity |-> buf.size, write_size |-> write_size])
    IN IF buffer_overflow(write_size, buf.size)
       THEN LET grown == Buffer(buffer_regrown(write_size)) IN
            IF Tail(reports) = <<>>
            THEN [err |-> RecursionError, buffer |-> grown, calls |-> made,
                  bytes |-> buffer_slice(grown, 0)]
            ELSE retrieve(grown, Tail(reports), made)
       ELSE [err |-> NoErr, buffer |-> written, calls |-> made,
             bytes |-> buffer_slice(written, write_size)]

\* Mutant of buffer_store: the buffers kept on the class, one pair for all processes.
buffer_store_shared(p, ch, buf) == [q \in Procs |-> [buffers[q] EXCEPT ![ch] = buf]]

\* `self._metadata_buffer = ...` / `self._instructions_buffer = ...`: the buffers
\* are attributes of the process object.
buffer_store(p, ch, buf) == [buffers EXCEPT ![p][ch] = buf]

\* Mutant of retrieve_prepares: the process is prepared for execution first.
retrieve_prepares_always(op) == TRUE

\* get_instructions / get_metadata make no prepare_for_execution call.
retrieve_prepares(op) == FALSE

\* p.get_instructions() / p.get_metadata(): returns loads() of the retrieved bytes.
Retrieve(p, ch, op, reports) ==
    LET got == retrieve(buffers[p][ch], reports, <<>>)
        ret == Outcome(op, p, None, None, None, ch, got.err,
                       [calls |-> got.calls, bytes |-> got.bytes])
    IN
    /\ buffers' = buffer_store(p, ch, got.buffer)
    /\ IF retrieve_prepares(op)
       THEN /\ \E rg \in engine_flush(reg[p]) : reg' = [reg EXCEPT ![p] = rg]
            /\ executed' = [executed EXCEPT ![p] = TRUE]
            /\ last' = [ret EXCEPT !.flushes = 1]
       ELSE /\ last' = ret
            /\ UNCHANGED <<executed, reg>>
    /\ UNCHANGED <<mode, status, quants, results, sampled, defaults, engine_ok>>

get_instructions(p, reports) == Retrieve(p, "instructions", "get_instructions", reports)

get_metadata(p, reports) == Retrieve(p, "metadata", "get_metadata", reports)

\* ------------------------------------------ controlled scopes (standard/ctrl.py)
\* Control qubits of the scopes the model opens.
MaxCtrl == 2

\* The on_state argument: None, an int, or a list of bits.
OnNone == [kind |-> "none", val |-> 0, bits |-> <<>>]
OnInt(n) == [kind |-> "int", val |-> n, bits |-> <<>>]
OnList(l) == [kind |-> "list", val |-> 0, bits |-> l]

\* int.bit_length(): the number of binary digits of abs(n).
RECURSIVE bit_length(_)
bit_length(n) ==
    IF n = 0 THEN 0
    ELSE 1 + bit_length((IF n < 0 THEN -n ELSE n) \div 2)

\* Mutant of format_mask: the digits taken least significant first.
format_mask_lsb_first(val, length) ==
    IF val < 0
    THEN [err |-> ValueError("invalid literal for int() with base 10: '-'"), mask |-> Unknown]
    ELSE [err |-> NoErr, mask |-> Known(reversed_qubits(to_bits(val, length)))]

\* [int(i) for i in f"{{:0{length}b}}".format(on_state)]: the characters of the
\* binary numeral, zero-filled to length; a negative number's begins with '-',
\* which int() rejects.
format_mask(val, length) ==
    IF val < 0
    THEN [err |-> ValueError("invalid literal for int() with base 10: '-'"), mask |-> Unknown]
    ELSE [err |-> NoErr, mask |-> Known(to_bits(val, length))]

\* _create_mask(on_state, length)
create_mask(on_state, length) ==
    IF on_state.kind = "none"
    THEN [err |-> NoErr, mask |-> Unknown]
    ELSE IF on_state.kind = "list"
    THEN IF Len(on_state.bits) # length
         THEN [err |-> ValueError("'on_state' received a list of another length"),
               mask |-> Unknown]
         ELSE [err |-> NoErr, mask |-> Known(on_state.bits)]
    ELSE IF length < bit_length(on_state.val)
    THEN [err |-> ValueError("To control 'on_state' you need more qubits"), mask |-> Unknown]
    ELSE format_mask(on_state.val, length)

\* _apply_mask(mask, q): the X gates of `for i, q in zip(mask, q): if i == 0: X(q)`.
RECURSIVE apply_mask_zip(_, _)
apply_mask_zip(bits, q) ==
    IF bits = <<>> \/ q = <<>> THEN <<>>
    ELSE (IF Head(bits) = 0 THEN <<Instr("X", <<Head(q)>>)>> ELSE <<>>)
         \o apply_mask_zip(Tail(bits), Tail(q))

apply_mask(mask, q) == IF mask = Unknown THEN <<>> ELSE apply_mask_zip(mask[1], q)

\* What the body of a controlled scope does: the instructions it issues, and whether
\* it then raises.
BodyError == [type |-> "Exception", msg |-> "raised by the body"]
Bodies ==
    { [instrs |-> <<>>, raises |-> FALSE],
      [instrs |-> <<Instr("gate", <<MaxCtrl>>)>>, raises |-> FALSE],
      [instrs |-> <<Instr("gate", <<MaxCtrl>>)>>, raises |-> TRUE] }

\* `with control(ctr, on_state=on_state): body`: __init__ builds the mask, __enter__
\* flips and opens the scope, __exit__ closes it and flips back; __exit__ runs
\* whether or not the body raised, and lets the body's exception through.
with_control(ctr, on_state, body) ==
    LET m == create_mask(on_state, Len(ctr)) IN
    IF m.err # NoErr THEN [err |-> m.err, mask |-> Unknown, instrs |-> <<>>]
    ELSE [err |-> IF body.raises THEN BodyError ELSE NoErr,
          mask |-> m.mask,
          instrs |-> apply_mask(m.mask, ctr) \o <<Instr("ctrl_begin", ctr)>>
                     \o body.instrs
                     \o <<Instr("ctrl_end", <<>>)>> \o apply_mask(m.mask, ctr)]

\* _ctrl(control, func, *args, on_state=on_state): the same calls in a row, with
\* nothing that catches around the call of func.
ctrl_call(ctr, on_state, body) ==
    LET m == create_mask(on_state, Len(ctr)) IN
    IF m.err # NoErr THEN [err |-> m.err, mask |-> Unknown, instrs |-> <<>>]
    ELSE IF body.raises
    THEN [err |-> BodyError, mask |-> m.mask,
          instrs |-> apply_mask(m.mask, ctr) \o <<Instr("ctrl_begin", ctr)>>
                     \o body.instrs]
    ELSE [err |-> NoErr, mask |-> m.mask,
          instrs |-> apply_mask(m.mask, ctr) \o <<Instr("ctrl_begin", ctr)>>
                     \o body.instrs
                     \o <<Instr("ctrl_end", <<>>)>> \o apply_mask(m.mask, ctr)]

\* A controlled scope run to its end; the caller sees the instructions issued, the
\* exception, and the mask the scope object holds.
Scope(op, out, ctr, on_state, body) ==
    /\ last' = [Outcome(op, None, None, None, None,
                        [ctr |-> ctr, on_state |-> on_state, body |-> body],
                        out.err, out.mask)
                EXCEPT !.instrs = out.instrs, !.issued = Len(out.instrs)]
    /\ UNCHANGED <<mode, executed, status, reg, quants, results, buffers, sampled,
                   defaults, engine_ok>>

control(ctr, on_state, body) ==
    Scope("control", with_control(ctr, on_state, body), ctr, on_state, body)

ctrl(ctr, on_state, body) ==
    Scope("ctrl", ctrl_call(ctr, on_state, body), ctr, on_state, body)

\* ------------------------------------------------------------ engine faults
\* The engine starts (ok = FALSE) or stops (ok = TRUE) failing its result queries
\* get_measurement, get_dump_size, get_dump and get_sample.
engine_fault(ok) ==
    /\ engine_ok # ok
    /\ engine_ok' = ok
    /\ UNCHANGED <<mode, executed, status, reg, quants, results, buffers, sampled,
                   defaults, last>>

\* ---------------------------------------------------- process construction
\* The module-level DEFAULT_PROCESS_CONFIGURATION: nothing set, nothing forced.
\* num_qubits is an optional number, the other entries are None or a name.
DEFAULT_PROCESS_CONFIGURATION ==
    [configuration |-> None, num_qubits |-> Unknown, simulator |-> None,
     execution |-> None, force |-> FALSE]

\* The arguments of Process(...) and of set_default_process_configuration(...).
ProcessArgs(configuration, num_qubits, simulator, execution) ==
    [configuration |-> configuration, num_qubits |-> num_qubits,
     simulator |-> simulator, execution |-> execution]

\* set_default_process_configuration(...): the module-level dict is replaced.
set_default_process_configuration(configuration, num_qubits, simulator, execution, force) ==
    /\ defaults' = [configuration |-> configuration, num_qubits |-> num_qubits,
                    simulator |-> simulator, execution |-> execution,
                    force |-> force]
    /\ last' = Outcome("set_default_process_configuration", None, None, None, None,
                       [configuration |-> configuration, num_qubits |-> num_qubits,
                        simulator |-> simulator, execution |-> execution,
                        force_configuration |-> force],
                       NoErr, None)
    /\ UNCHANGED <<mode, executed, status, reg, quants, results, buffers, sampled,
                   engine_ok>>

\* Mutant of merge_applies: the defaults are merged only when forced.
merge_applies_forced(args, d) == d.force

\* Process.__init__: `DEFAULT_PROCESS_CONFIGURATION["force"] or all(a is None ...)`.
merge_applies(args, d) ==
    \/ d.force
    \/ /\ args.configuration = None /\ args.num_qubits = Unknown
       /\ args.simulator = None /\ args.execution = None

\* Process.__init__: each argument replaced by the default entry that is not None.
merge_defaults(args, d) ==
    IF merge_applies(args, d)
    THEN [configuration |-> IF d.configuration # None THEN d.configuration
                            ELSE args.configuration,
          num_qubits |-> IF d.num_qubits # Unknown THEN d.num_qubits ELSE args.num_qubits,
          simulator |-> IF d.simulator # None THEN d.simulator ELSE args.simulator,
          execution |-> IF d.execution # None THEN d.execution ELSE args.execution]
    ELSE args

\* Process.__init__: the qubit counts of the simulators.
sparse_num_qubits == 32
dense_num_qubits == 12

\* Mutant of default_num_qubits: the two counts swapped.
default_num_qubits_swapped(simulator) ==
    IF simulator = "sparse" THEN dense_num_qubits ELSE sparse_num_qubits

\* Process.__init__: `32 if simulator == "sparse" else 12`.
default_num_qubits(simulator) ==
    IF simulator = "sparse" THEN sparse_num_qubits ELSE dense_num_qubits

\* Mutant of config_conflict: only num_qubits is looked at beside the configuration.
config_conflict_num_qubits(m) == m.configuration # None /\ m.num_qubits # Unknown

\* Process.__init__: `configuration is not None and any(a is not None for
\* [num_qubits, simulator, execution])`, on the merged values.
config_conflict(m) ==
    /\ m.configuration # None
    /\ (m.num_qubits # Unknown \/ m.simulator # None \/ m.execution # None)

\* Process.__init__ up to the construction of the engine object: the exception, or
\* what the engine is built from (the configuration object, or the arguments of
\* get_simulator).
Process_init(args, d) ==
    LET m == merge_defaults(args, d) IN
    IF config_conflict(m)
    THEN [err |-> ValueError("Cannot specify num_qubits, simulator or execution if configuration is provided"),
          built |-> None]
    ELSE IF m.configuration # None
    THEN [err |-> NoErr,
          built |-> [configuration |-> m.configuration, num_qubits |-> Unknown,
                     simulator |-> None, execution |-> None]]
    ELSE LET simulator == IF m.simulator = None THEN "sparse" ELSE m.simulator IN
         [err |-> NoErr,
          built |-> [configuration |-> None,
                     num_qubits |-> IF m.num_qubits = Unknown
                                    THEN Known(default_num_qubits(simulator))
                                    ELSE m.num_qubits,
                     simulator |-> simulator,
                     execution |-> IF m.execution = None THEN "live" ELSE m.execution]]

\* Process(configuration, num_qubits, simulator, execution)
Process(configuration, num_qubits, simulator, execution) ==
    LET args == ProcessArgs(configuration, num_qubits, simulator, execution)
        made == Process_init(args, defaults)
    IN
    /\ last' = Outcome("Process", None, None, None, None, args, made.err, made.built)
    /\ UNCHANGED <<mode, executed, status, reg, quants, results, buffers, sampled,
                   defaults, engine_ok>>

\* ----------------------------------------------------------- specification
Init ==
    /\ mode \in [Procs -> {"live", "batch"}]
    /\ executed = [p \in Procs |-> FALSE]
    /\ status = [p \in Procs |-> <<>>]
    /\ reg = [p \in Procs |-> <<>>]
    /\ quants = [v \in QVars |-> NoQuant]
    /\ results = <<>>
    /\ buffers = [p \in Procs |-> [instructions |-> Buffer(instructions_buffer_size),
                                   metadata |-> Buffer(metadata_buffer_size)]]
    /\ sampled = <<>>
    /\ defaults = DEFAULT_PROCESS_CONFIGURATION
    /\ engine_ok = TRUE
    /\ last = Outcome("init", None, None, None, None, None, NoErr, None)

\* Position lists given to at(): in range, negative, and out of range for the
\* shorter groups.
Positions == SeqsUpTo(-1..(MaxLen - 1), MaxLen)

\* The group algebra: two processes; a holds the allocated groups, b the derived.
NextQuant ==
    \/ \E p \in Procs, n \in 1..MaxQubits : alloc(p, n, "a")
    \/ \E v \in QVars, v2 \in QVars : Quant_add(v, v2, "b")
    \/ \E index \in Positions : Quant_at("a", index, "b")
    \/ \E v \in QVars : Quant_reversed(v, "b")

\* Both processes built with the default configuration.
InitQuant == Init /\ mode = [p \in Procs |-> "live"]

SpecQuant == InitQuant /\ [][NextQuant]_vars

\* Shot counts and seeds the callers pass.
MaxShots == 2
Seeds == {0}

\* Process p1 through its life: its qubits are allocated by one alloc call, then
\* gates, one result request, reads and the flush follow in any order; samples are
\* drawn from its result, until one is drawn from a resolved snapshot.
Results == 1..Len(results)

Next ==
    \/ \E n \in -1..MaxQubits : status["p1"] = <<>> /\ alloc("p1", n, "a")
    \/ Quant_free("a")
    \/ Quant_is_free("a")
    \/ Quant_at("a", <<>>, "a")
    \/ gate("a")
    \/ execute("p1")
    \/ results = <<>> /\ Measurement_init("a")
    \/ results = <<>> /\ QuantumState_init("a")
    \/ results = <<>> /\ Samples_init("a", MaxShots)
    \/ \E r \in Results : Measurement_value(r)
    \/ \E r \in Results : Measurement_get(r)
    \/ \E r \in Results : QuantumState_states(r)
    \/ \E r \in Results : QuantumState_get(r)
    \/ \E r \in Results : QuantumState_probabilities(r)
    \/ \E seed \in Seeds :
            results # <<>> /\ sampled = <<>> /\ QuantumState_sample(1, MaxShots, seed)
    \/ \E r \in Results : QuantumState_show(r)
    \/ \E r \in Results : Samples_value(r)
    \/ \E r \in Results : Samples_get(r)

\* The second process is built with the default configuration and left idle.
InitOne == Init /\ mode["p2"] = "live"

Spec == InitOne /\ [][Next]_vars

\* The qubit registry of both processes: allocation, freeing, status and the flush.
NextRegistry ==
    \/ \E p \in Procs, n \in -1..MaxQubits, w \in QVars : alloc(p, n, w)
    \/ \E v \in QVars : Quant_free(v)
    \/ \E v \in QVars : Quant_is_free(v)
    \/ \E v \in QVars : Quant_exit(v)
    \/ \E p \in Procs : execute(p)

SpecRegistry == Init /\ [][NextRegistry]_vars

\* Seeds the callers of sample() pass.
SampleSeeds == {0, 1}

\* A snapshot of a live process p1: its qubits are allocated by one alloc call,
\* one snapshot is requested and read, and samples are drawn from it with any shot
\* count and seed.
NextSample ==
    \/ \E n \in 1..MaxQubits : status["p1"] = <<>> /\ alloc("p1", n, "a")
    \/ results = <<>> /\ QuantumState_init("a")
    \/ \E r \in Results : QuantumState_states(r)
    \/ \E r \in Results : QuantumState_get(r)
    \/ \E r \in Results, shots \in 0..MaxShots, seed \in SampleSeeds :
            QuantumState_sample(r, shots, seed)

SpecSample == InitQuant /\ [][NextSample]_vars

\* Payload sizes the engine may have: within the initial capacity, exactly at it,
\* one byte over, and well over.
PayloadSizes(size) == {1, size, size + 1, 2 * size}

\* The sizes the engine reports at the successive calls of one retrieval.
Reports(size) == [1..MaxCalls -> PayloadSizes(size)]

\* Introspection of process p1: its instruction list and its metadata are retrieved
\* again and again, the engine's payload changing freely.
NextBuffer ==
    \/ \E reports \in Reports(instructions_buffer_size) : get_instructions("p1", reports)
    \/ \E reports \in Reports(metadata_buffer_size) : get_metadata("p1", reports)

SpecBuffer == InitQuant /\ [][NextBuffer]_vars

\* The failures of the group operations: p1 allocates into a and p2 into b, groups
\* are concatenated, freed and left as scopes, and gates are applied, before and
\* after the flush.
NextErrors ==
    \/ \E n \in 0..1 : alloc("p1", n, "a")
    \/ \E n \in 0..1 : alloc("p2", n, "b")
    \/ \E v \in QVars, v2 \in QVars : Quant_add(v, v2, "b")
    \/ \E v \in QVars : Quant_free(v)
    \/ \E v \in QVars : Quant_exit(v)
    \/ \E v \in QVars : gate(v)
    \/ \E p \in Procs : execute(p)

SpecErrors == Init /\ [][NextErrors]_vars

\* Process p1 with an engine whose result queries may fail: one alloc call, one
\* result request, reads of every kind and the flush.
NextFault ==
    \/ \E n \in 1..MaxQubits : status["p1"] = <<>> /\ alloc("p1", n, "a")
    \/ results = <<>> /\ Measurement_init("a")
    \/ results = <<>> /\ QuantumState_init("a")
    \/ results = <<>> /\ Samples_init("a", MaxShots)
    \/ execute("p1")
    \/ \E ok \in BOOLEAN : engine_fault(ok)
    \/ \E r \in Results : Measurement_value(r)
    \/ \E r \in Results : Measurement_get(r)
    \/ \E r \in Results : QuantumState_states(r)
    \/ \E r \in Results : QuantumState_get(r)
    \/ \E r \in Results : QuantumState_probabilities(r)
    \/ \E r \in Results : Samples_value(r)
    \/ \E r \in Results : Samples_get(r)

SpecFault == InitOne /\ [][NextFault]_vars

\* Payloads that stay as they are during one retrieval: one that fits the initial
\* capacity and one that is a byte over it.
SteadyReports(size) == {[i \in 1..MaxCalls |-> x] : x \in {1, size + 1}}

\* The group of each process: p1 allocates into a, p2 into b.
GroupOf(p) == IF p = "p1" THEN "a" ELSE "b"

\* Two processes side by side, each through its life: one qubit allocated, frees,
\* gates, one measurement requested and read, the flush, and metadata retrievals.
NextIndep ==
    \/ \E p \in Procs : status[p] = <<>> /\ alloc(p, 1, GroupOf(p))
    \/ \E v \in QVars : Quant_free(v)
    \/ \E v \in QVars : gate(v)
    \/ \E p \in Procs : execute(p)
    \/ \E p \in Procs :
            (\A r \in Results : results[r].process # p) /\ Measurement_init(GroupOf(p))
    \/ \E r \in Results : Measurement_get(r)
    \/ \E p \in Procs, reports \in SteadyReports(metadata_buffer_size) :
            get_metadata(p, reports)

\* Process p1 and its introspection: one alloc call, one measurement requested and
\* read, the flush, and retrievals of the instruction list and of the metadata at
\* any point.
NextIntrospect ==
    \/ \E n \in 1..MaxQubits : status["p1"] = <<>> /\ alloc("p1", n, "a")
    \/ results = <<>> /\ Measurement_init("a")
    \/ \E r \in Results : Measurement_value(r)
    \/ execute("p1")
    \/ gate("a")
    \/ \E reports \in SteadyReports(instructions_buffer_size) :
            get_instructions("p1", reports)
    \/ \E reports \in SteadyReports(metadata_buffer_size) : get_metadata("p1", reports)

SpecIntrospect == InitOne /\ [][NextIntrospect]_vars

\* The control groups and on_state arguments the callers pass: no qubit up to
\* MaxCtrl qubits; None, the integers from -1 to one that needs a qubit more than
\* there is, and the bit lists of up to one element more than there are qubits.
CtrlGroups == {[i \in 1..n |-> i - 1] : n \in 0..MaxCtrl}
OnStates ==
    {OnNone} \cup {OnInt(n) : n \in -1..Pow2(MaxCtrl)}
             \cup {OnList(l) : l \in SeqsUpTo({0, 1}, MaxCtrl + 1)}

\* Controlled scopes opened both ways, one after the other.
NextCtrl ==
    \/ \E ctr \in CtrlGroups, on_state \in OnStates, body \in Bodies :
            control(ctr, on_state, body)
    \/ \E ctr \in CtrlGroups, on_state \in OnStates, body \in Bodies :
            ctrl(ctr, on_state, body)

SpecCtrl == InitQuant /\ [][NextCtrl]_vars

\* The values the callers pass for the configuration: a configuration object or
\* none, a number of qubits or none, a simulator or none, an execution mode or none.
Configurations == {None, "configuration"}
NumQubits == {Unknown, Known(MaxQubits)}
Simulators == {None, "sparse", "dense"}
Executions == {None, "live", "batch"}

\* Processes constructed under default configurations that are set and set again.
NextConfig ==
    \/ \E c \in Configurations, n \in NumQubits, s \in Simulators, e \in Executions,
          f \in BOOLEAN :
            set_default_process_configuration(c, n, s, e, f)
    \/ \E c \in Configurations, n \in NumQubits, s \in Simulators, e \in Executions :
            Process(c, n, s, e)

SpecConfig == InitQuant /\ [][NextConfig]_vars

\* Group sizes around the width of one measurement call.
WideSizes == {1, ChunkWidth - 1, ChunkWidth, ChunkWidth + 1, ChunkWidth + MaxBits}

\* Process p1 after a = p1.alloc(n), for a size n around the width of one call.
InitWide ==
    \E n \in WideSizes :
        /\ mode \in [Procs -> {"live", "batch"}] /\ mode["p2"] = "live"
        /\ executed = [p \in Procs |-> FALSE]
        /\ status = [p \in Procs |-> alloc_status(<<>>, IF p = "p1" THEN n ELSE 0)]
        /\ reg = [p \in Procs |-> <<>>]
        /\ quants = [v \in QVars |->
                        IF v = "a" THEN Quant(alloc_qubits_index(<<>>, n), "p1")
                        ELSE NoQuant]
        /\ results = <<>>
        /\ buffers = [p \in Procs |-> [instructions |-> Buffer(instructions_buffer_size),
                                       metadata |-> Buffer(metadata_buffer_size)]]
        /\ sampled = <<>>
        /\ defaults = DEFAULT_PROCESS_CONFIGURATION
        /\ engine_ok = TRUE
        /\ last = [Outcome("alloc", "p1", None, None, "a", n, NoErr, None)
                   EXCEPT !.issued = n,
                          !.instrs = alloc_instrs(alloc_qubits_index(<<>>, n))]

\* Measurements of the wide group: requested, read, forced, and the flush.
NextWide ==
    \/ Measurement_init("a")
    \/ \E r \in Results : Measurement_value(r)
    \/ \E r \in Results : Measurement_get(r)
    \/ execute("p1")

SpecWide == InitWide /\ [][NextWide]_vars

\* Snapshots of the group of p1, narrow or wide: requested, read, forced, flushed.
NextDump ==
    \/ results = <<>> /\ QuantumState_init("a")
    \/ \E r \in Results : QuantumState_states(r)
    \/ \E r \in Results : QuantumState_get(r)
    \/ execute("p1")

SpecDump == InitWide /\ [][NextDump]_vars

\* p1 is a batch process, p2 of either mode.
InitIndep == Init /\ mode["p1"] = "batch"

SpecIndep == InitIndep /\ [][NextIndep]_vars

\* The live process p1 issuing instructions: one alloc call, a reversed view of the
\* allocated group, frees, gates, and snapshots requested at any point and read.
NextOrder ==
    \/ \E n \in 1..MaxQubits : status["p1"] = <<>> /\ alloc("p1", n, "a")
    \/ Quant_reversed("a", "b")
    \/ \E v \in QVars : Quant_free(v)
    \/ gate("a")
    \/ QuantumState_init("a")
    \/ \E r \in Results : QuantumState_states(r)

SpecOrder == InitQuant /\ [][NextOrder]_vars

\* Segments of one format string and the widths its digits write.
MaxSegments == 2
Widths == 0..(MaxQubits + 1)

\* The digit strings of a segment: none, one digit, and a width with a leading zero.
DigitStrings == {<<>>} \cup {<<d>> : d \in Widths} \cup {<<0, 1>>}

\* Format strings of the documented grammar (i|b)\d*(:(i|b)\d+)*.
Pieces == {Piece(f, ds) : f \in {"b", "i"}, ds \in DigitStrings}
Formats ==
    {s \in SeqsUpTo(Pieces, MaxSegments) :
        /\ s # <<>>
        /\ \A i \in DOMAIN s : i > 1 => s[i].digits # <<>>}

\* A snapshot of the group of the live process p1, shown with any format string.
NextShow ==
    \/ \E n \in 1..MaxQubits : status["p1"] = <<>> /\ alloc("p1", n, "a")
    \/ results = <<>> /\ QuantumState_init("a")
    \/ \E r \in Results, format_str \in Formats : QuantumState_show_format(r, format_str)

SpecShow == InitQuant /\ [][NextShow]_vars

\* Keys given to q[key]: positions in and out of range, and slices with and
\* without each part, forwards, backwards and with a zero step.
Keys ==
    {IntKey(i) : i \in -1..MaxLen}
      \cup {SliceKey(start, stop, step) :
                start \in {Unknown, Known(1), Known(-1)},
                stop \in {Unknown, Known(1)},
                step \in {Unknown, Known(2), Known(-1), Known(0)}}

\* Position lists given to at() among the derivations.
FewPositions == {<<>>, <<0>>, <<-1, 0>>, <<MaxLen>>}

\* a = p1.alloc(n) and b = p2.alloc(1): two groups of two processes.
InitDerive ==
    \E n \in 1..MaxQubits :
        /\ mode = [p \in Procs |-> "live"]
        /\ executed = [p \in Procs |-> FALSE]
        /\ status = [p \in Procs |-> alloc_status(<<>>, IF p = "p1" THEN n ELSE 1)]
        /\ reg = [p \in Procs |-> <<>>]
        /\ quants = [v \in QVars |->
                        IF v = "a" THEN Quant(alloc_qubits_index(<<>>, n), "p1")
                        ELSE Quant(alloc_qubits_index(<<>>, 1), "p2")]
        /\ results = <<>>
        /\ buffers = [p \in Procs |-> [instructions |-> Buffer(instructions_buffer_size),
                                       metadata |-> Buffer(metadata_buffer_size)]]
        /\ sampled = <<>>
        /\ defaults = DEFAULT_PROCESS_CONFIGURATION
        /\ engine_ok = TRUE
        /\ last = [Outcome("alloc", "p2", None, None, "b", 1, NoErr, None)
                   EXCEPT !.issued = 1,
                          !.instrs = alloc_instrs(alloc_qubits_index(<<>>, 1))]

\* The derivations: b is derived from a and from b itself, again and again.
NextDerive ==
    \/ \E v \in QVars, v2 \in QVars : Quant_add(v, v2, "b")
    \/ \E v \in QVars, index \in FewPositions : Quant_at(v, index, "b")
    \/ \E v \in QVars : Quant_reversed(v, "b")
    \/ \E v \in QVars, key \in Keys : Quant_getitem(v, key, "b")
    \/ \E v \in QVars : Quant_iter(v)

SpecDerive == InitDerive /\ [][NextDerive]_vars

\* ------------------------------------------------------------------ claims
Distinct(qs) == \A i \in DOMAIN qs : \A j \in DOMAIN qs : i # j => qs[i] # qs[j]

AllFree(st, qs) == \A i \in DOMAIN qs : st[qs[i] + 1] = FALSE

\* C1: for n >= 1, alloc(n) on a process that accepts instructions returns a group
\* of that process with exactly n pairwise distinct indices, each allocated right
\* after the call; free() leaves every index of the group free, and is_free() on a
\* group whose indices are all free returns true.
C1_AllocFreeIsFree ==
    [][/\ (last'.op = "alloc" /\ last'.arg >= 1 /\ engine_accepts(last'.p))
            => last'.err = NoErr
       /\ (last'.op = "alloc" /\ last'.err = NoErr)
            => LET q == quants'[last'.w]
                   st == status'[last'.p]
               IN /\ last'.arg >= 1
                  /\ q.process = last'.p
                  /\ Len(q.qubits) = last'.arg
                  /\ Distinct(q.qubits)
                  /\ \A i \in DOMAIN q.qubits :
                        /\ q.qubits[i] \in 0..(Len(st) - 1)
                        /\ st[q.qubits[i] + 1] = TRUE
       /\ (last'.op = "free" /\ last'.err = NoErr)
            => AllFree(status'[last'.p], quants[last'.v].qubits)
       /\ last'.op = "is_free"
            => (last'.ret = AllFree(status[last'.p], quants[last'.v].qubits))
      ]_vars

\* A group of two qubits was allocated, freed, and is_free() returned true.
C1_Witness ==
    /\ last.op = "is_free"
    /\ last.ret = TRUE
    /\ Len(quants[last.v].qubits) = 2
    /\ Distinct(quants[last.v].qubits)

\* C2: alloc(n) with n < 1 raises the invalid-allocation error before any
\* allocate_qubit call: nothing is issued and the registry, the registered requests,
\* the execution state and the caller's groups are unchanged.
C2_AllocInvalid ==
    [][(last'.op = "alloc" /\ last'.arg < 1)
        => /\ last'.err = ValueError("Cannot allocate less than 1 qubit")
           /\ last'.issued = 0
           /\ UNCHANGED <<status, reg, executed, quants, results>>
      ]_vars

\* alloc(0) was called and raised.
C2_Witness ==
    /\ last.op = "alloc"
    /\ last.arg = 0
    /\ last.err.type = "ValueError"

\* C3: a + b raises the cross-process error when a and b reference different
\* processes and creates no group; otherwise it yields a group of that process
\* whose indices are a's followed by b's, of length len(a) + len(b).
C3_Concat ==
    [][last'.op = "add"
        => LET a == quants[last'.v]
               b == quants[last'.v2]
               c == quants'[last'.w]
           IN IF a.process # b.process
              THEN /\ last'.err =
                        ValueError("Cannot concatenate qubits from different processes")
                   /\ UNCHANGED quants
              ELSE /\ last'.err = NoErr
                   /\ c.process = a.process
                   /\ Len(c.qubits) = Len(a.qubits) + Len(b.qubits)
                   /\ \A i \in DOMAIN a.qubits : c.qubits[i] = a.qubits[i]
                   /\ \A j \in DOMAIN b.qubits : c.qubits[Len(a.qubits) + j] = b.qubits[j]
      ]_vars

\* Groups of two different processes were added, and the addition raised.
C3_Witness ==
    /\ last.op = "add"
    /\ quants[last.v].process # quants[last.v2].process
    /\ last.err.type = "ValueError"

\* C4: reversed(g) is a group of the same process whose i-th index is g's i-th
\* from the end, and reversing it again gives g's sequence.
C4_Reversed ==
    [][last'.op = "reversed"
        => LET g == quants[last'.v]
               r == quants'[last'.w]
               n == Len(g.qubits)
           IN /\ last'.err = NoErr
              /\ r.process = g.process
              /\ Len(r.qubits) = n
              /\ \A i \in 1..n : r.qubits[i] = g.qubits[n + 1 - i]
              /\ reversed_qubits(r.qubits) = g.qubits
      ]_vars

\* A group of two distinct indices was reversed.
C4_Witness ==
    /\ last.op = "reversed"
    /\ quants[last.w].qubits = <<1, 0>>

\* C5: at(positions) with every position in 0 .. len - 1 returns; whenever at
\* returns, the group is of the same process, has one index per position, and its
\* j-th index is the group's index at 0-based position positions[j].
C5_At ==
    [][last'.op = "at"
        => LET g == quants[last'.v]
               r == quants'[last'.w]
               index == last'.arg
           IN /\ (\A j \in DOMAIN index : index[j] \in 0..(Len(g.qubits) - 1))
                    => last'.err = NoErr
              /\ last'.err = NoErr
                    => /\ r.process = g.process
                       /\ Len(r.qubits) = Len(index)
                       /\ \A j \in DOMAIN index :
                            index[j] >= 0 => r.qubits[j] = g.qubits[index[j] + 1]
      ]_vars

\* at([1, 0]) returned: the positions in an order that is not the group's.
C5_Witness ==
    /\ last.op = "at"
    /\ last.arg = <<1, 0>>
    /\ last.err = NoErr
    /\ quants[last.w].qubits = <<1, 0>>

NonForcingReads ==
    {"Measurement.value", "QuantumState.states", "QuantumState.probabilities",
     "QuantumState.sample", "QuantumState.show", "Samples.value"}

Gets == {"Measurement.get", "QuantumState.get", "Samples.get"}

\* C6: in a batch process that has not been executed no deferred result holds a
\* value, and every non-forcing read that returns returns None.
C6_BatchUnknown ==
    /\ \A r \in DOMAIN results :
          (mode[results[r].process] = "batch" /\ ~executed[results[r].process])
            => results[r].value = Unknown
    /\ (/\ last.op \in NonForcingReads
        /\ mode[last.p] = "batch"
        /\ ~executed[last.p]
        /\ last.err = NoErr)
            => last.ret = Unknown

\* Measurement.value of a measurement of at least one qubit was read in a batch
\* process before any execute().
C6_Witness ==
    /\ last.op = "Measurement.value"
    /\ mode[last.p] = "batch"
    /\ ~executed[last.p]
    /\ results[last.r].indexes # <<>>
    /\ last.err = NoErr
    /\ last.ret = Unknown

\* The value of a measurement can be resolved without a flush.
Resolvable(self, rg) ==
    \/ self.value # Unknown
    \/ /\ self.indexes # <<>>
       /\ \A i \in DOMAIN self.indexes : rg[self.indexes[i] + 1].ready

\* C7: Measurement.get() on a measurement that is unresolved at the call triggers
\* exactly one flush and returns an integer; on a measurement already resolvable
\* it triggers no flush.
C7_GetFlushesOnce ==
    [][last'.op = "Measurement.get"
        => LET self == results[last'.r] IN
           IF Resolvable(self, reg[self.process])
           THEN last'.flushes = 0 /\ last'.err = NoErr /\ last'.ret # Unknown
           ELSE last'.flushes = 1 /\ last'.err = NoErr /\ last'.ret # Unknown
      ]_vars

\* C7 on measurements of at least one qubit.
C7_GetFlushesOnce_NonEmpty ==
    [][(last'.op = "Measurement.get" /\ results[last'.r].indexes # <<>>)
        => LET self == results[last'.r] IN
           IF Resolvable(self, reg[self.process])
           THEN last'.flushes = 0 /\ last'.err = NoErr /\ last'.ret # Unknown
           ELSE last'.flushes = 1 /\ last'.err = NoErr /\ last'.ret # Unknown
      ]_vars

\* C8: when get() of a deferred result returns, it returns a value, not None, and
\* that value is the one the result holds.
C8_GetResolved ==
    (last.op \in Gets /\ last.err = NoErr)
        => /\ last.ret # Unknown
           /\ results[last.r].value = last.ret

\* Samples.get() forced the flush of a batch process and returned the histogram.
C8_Witness ==
    /\ last.op = "Samples.get"
    /\ last.flushes = 1
    /\ last.err = NoErr
    /\ last.ret # Unknown

\* C9: a deferred result that holds a value keeps it through every operation, and
\* an operation on it makes no engine query for it.
C9_Monotonic ==
    [][\A r \in DOMAIN results :
          results[r].value # Unknown
            => /\ results'[r].value = results[r].value
               /\ last'.r = r => last'.queries = 0
      ]_vars

\* show() was called on a QuantumState that already held its value.
C9_Witness ==
    /\ last.op = "QuantumState.show"
    /\ last.queries = 0
    /\ last.ret # Unknown
    /\ results[last.r].value # Unknown

\* The operation issues at least one instruction to the engine.
Attempts(l, qs) ==
    CASE l.op = "alloc" -> l.arg >= 1
      [] l.op \in {"free", "Measurement"} -> qs[l.v].qubits # <<>>
      [] l.op \in {"gate", "QuantumState", "Samples"} -> TRUE
      [] OTHER -> FALSE

\* C10: a flush of a batch process leaves it executed; an executed batch process
\* stays executed, and every operation on it that issues an instruction fails with
\* the process-already-executed error and changes nothing.
C10_Terminal ==
    [][\A p \in Procs :
          /\ (last'.p = p /\ last'.flushes >= 1) => executed'[p]
          /\ (mode[p] = "batch" /\ executed[p])
                => /\ mode'[p] = "batch" /\ executed'[p]
                   /\ (last'.p = p /\ Attempts(last', quants))
                        => /\ last'.err = ProcessAlreadyExecutedError
                           /\ UNCHANGED <<status, reg, quants, results>>
      ]_vars

\* A gate was attempted on a batch process that a forcing get() had flushed.
C10_Witness ==
    /\ last.op = "gate"
    /\ mode[last.p] = "batch"
    /\ executed[last.p]
    /\ last.err = ProcessAlreadyExecutedError
    /\ \E r \in DOMAIN results : results[r].value # Unknown

\* Every sub-measurement of the measurement reports ready.
AllReady(self, rg) == \A i \in DOMAIN self.indexes : rg[self.indexes[i] + 1].ready

\* C11: Measurement.value never flushes and never changes the execution state, the
\* engine's requests or the qubits; on an unresolved measurement it polls each
\* sub-measurement index once; it caches a value only if all of them report ready
\* (and then does, the value being the engine's for a single sub-measurement); if
\* one is not ready it returns None and caches nothing.
C11_ValueAllOrNothing ==
    [][last'.op = "Measurement.value"
        => LET self == results[last'.r]
               rg == reg[self.process]
           IN /\ last'.flushes = 0
              /\ last'.issued = 0
              /\ UNCHANGED <<mode, executed, status, reg, quants>>
              /\ self.value = Unknown => last'.queries = Len(self.indexes)
              /\ (self.value = Unknown /\ results'[last'.r].value # Unknown)
                    => AllReady(self, rg)
              /\ (self.value = Unknown /\ self.indexes # <<>> /\ AllReady(self, rg))
                    => /\ last'.err = NoErr
                       /\ results'[last'.r].value # Unknown
                       /\ last'.ret = results'[last'.r].value
                       /\ Len(self.indexes) = 1
                            => last'.ret = Known(rg[self.indexes[1] + 1].val)
              /\ (self.value = Unknown /\ ~AllReady(self, rg))
                    => /\ last'.err = NoErr
                       /\ last'.ret = Unknown
                       /\ results' = results
      ]_vars

\* Measurement.value polled the one sub-measurement of a measurement that was not
\* ready, returned None and left the measurement without a value.
C11_Witness ==
    /\ last.op = "Measurement.value"
    /\ last.queries = 1
    /\ last.err = NoErr
    /\ last.ret = Unknown
    /\ results[last.r].value = Unknown
    /\ ~AllReady(results[last.r], reg[last.p])

Retrievals == {"get_instructions", "get_metadata"}

\* C12: every engine call of a retrieval but the last reported a size over the
\* capacity passed, and was followed by the same call on a buffer at least that
\* large; a retrieval that returns decodes the bytes of its last call alone, whose
\* reported size was within the capacity passed, and they are exactly the first
\* reported-size bytes of the buffer: the whole payload, nothing truncated.
C12_SingleFittingCall ==
    [][last'.op \in Retrievals
        => LET calls == last'.ret.calls
               bytes == last'.ret.bytes
               k == Len(calls)
               after == buffers'[last'.p][last'.arg]
           IN /\ k >= 1
              /\ calls[1].capacity = buffers[last'.p][last'.arg].size
              /\ \A i \in 1..(k - 1) :
                    /\ calls[i].write_size > calls[i].capacity
                    /\ calls[i + 1].capacity >= calls[i].write_size
              /\ last'.err = NoErr
                    => /\ calls[k].write_size <= calls[k].capacity
                       /\ after.size = calls[k].capacity
                       /\ after.data = [payload |-> calls[k].write_size,
                                        n |-> calls[k].write_size]
                       /\ bytes = [payload |-> calls[k].write_size,
                                   n |-> calls[k].write_size,
                                   len |-> calls[k].write_size]
      ]_vars

\* get_metadata() met a payload one byte over the initial capacity, replaced the
\* buffer and returned the whole payload from the second call.
C12_Witness ==
    /\ last.op = "get_metadata"
    /\ last.err = NoErr
    /\ last.ret.calls = << [capacity |-> metadata_buffer_size,
                            write_size |-> metadata_buffer_size + 1],
                           [capacity |-> metadata_buffer_size + 2,
                            write_size |-> metadata_buffer_size + 1] >>
    /\ last.ret.bytes.len = metadata_buffer_size + 1

\* The engine reported the same size at every call of the retrieval.
SameSize(calls) == \A i \in DOMAIN calls : calls[i].write_size = calls[1].write_size

\* C13: a retrieval that returns returns the whole payload of its last engine call,
\* whatever the size; and when the engine reports the same size at every call the
\* retrieval returns, after at most two engine calls.
C13_OverflowRecovered ==
    [][last'.op \in Retrievals
        => LET calls == last'.ret.calls
               bytes == last'.ret.bytes
           IN /\ last'.err = NoErr
                    => /\ bytes.payload = calls[Len(calls)].write_size
                       /\ bytes.n = bytes.payload
                       /\ bytes.len = bytes.payload
              /\ SameSize(calls)
                    => /\ last'.err = NoErr
                       /\ Len(calls) <= 2
      ]_vars

\* get_instructions() retrieved a payload of twice the initial capacity in two
\* engine calls.
C13_Witness ==
    /\ last.op = "get_instructions"
    /\ last.err = NoErr
    /\ Len(last.ret.calls) = 2
    /\ SameSize(last.ret.calls)
    /\ last.ret.bytes.len = 2 * instructions_buffer_size

\* C14: when the retried call, made after one regrowth, again reports a size over
\* the capacity passed, the retrieval ends there with an error: no third call.
C14_RetryBounded ==
    [][(/\ last'.op \in Retrievals
        /\ Len(last'.ret.calls) >= 2
        /\ last'.ret.calls[2].write_size > last'.ret.calls[2].capacity)
        => /\ last'.err # NoErr
           /\ Len(last'.ret.calls) = 2
      ]_vars

\* Sum of the squared magnitudes of a resolved mapping, times den: each amplitude
\* is amp / sqrt(den), the den being the same for all.
Mass(items) == [num |-> dump_mass(items), den |-> IF items = <<>> THEN 1 ELSE items[1].den]

\* C15: the mapping a QuantumState holds has squared magnitudes that sum to 1,
\* whatever amplitude set the engine reported for it, and a read of a snapshot the
\* engine has ready raises nothing.
C15_Normalized ==
    /\ \A r \in DOMAIN results :
          (results[r].kind = "QuantumState" /\ results[r].value # Unknown)
            => Mass(results[r].value[1]).num = Mass(results[r].value[1]).den
    /\ (last.op \in {"QuantumState.states", "QuantumState.get"})
            => last.err = NoErr

\* C15 on the amplitude sets whose accumulated mass is not zero.
C15_Normalized_NonZero ==
    /\ \A r \in DOMAIN results :
          (results[r].kind = "QuantumState" /\ results[r].value # Unknown
           /\ dump_mass(results[r].value[1]) # 0)
            => Mass(results[r].value[1]).num = Mass(results[r].value[1]).den
    /\ (/\ last.op \in {"QuantumState.states", "QuantumState.get"}
        /\ dump_mass(dump_accumulate(<<>>, reg[last.p][results[last.r].indexes[1] + 1].val)) # 0)
            => last.err = NoErr

\* A histogram as the set of its (state, count) entries; None has none.
HistSet(ret) == IF ret = Unknown THEN {} ELSE Range(ret[1])

RECURSIVE SumCounts(_)
SumCounts(hist) == IF hist = <<>> THEN 0 ELSE Head(hist).count + SumCounts(Tail(hist))

\* C16: sample(shots=N, seed=S) on a resolved QuantumState returns a histogram
\* whose counts sum to N and whose keys are basis states of the resolved mapping.
C16_SampleCounts ==
    (last.op = "QuantumState.sample" /\ results[last.r].value # Unknown)
        => /\ last.err = NoErr
           /\ last.ret # Unknown
           /\ SumCounts(last.ret[1]) = last.arg[1]
           /\ \A e \in HistSet(last.ret) :
                 e.state \in Range(dict_keys(results[last.r].value[1]))

\* C16 on the calls of sample that return a histogram.
C16_SampleCounts_Returned ==
    (last.op = "QuantumState.sample" /\ last.err = NoErr /\ last.ret # Unknown)
        => /\ SumCounts(last.ret[1]) = last.arg[1]
           /\ \A e \in HistSet(last.ret) :
                 e.state \in Range(dict_keys(results[last.r].value[1]))

\* C17: any two sample calls on the same resolved QuantumState with the same shot
\* count and the same seed have the same outcome, whatever sample calls were made
\* between them.
C17_SampleDeterministic ==
    \A i \in DOMAIN sampled : \A j \in DOMAIN sampled :
        (/\ sampled[i].r = sampled[j].r
         /\ sampled[i].shots = sampled[j].shots
         /\ sampled[i].seed = sampled[j].seed)
            => /\ sampled[i].err = sampled[j].err
               /\ HistSet(sampled[i].ret) = HistSet(sampled[j].ret)

\* sample was called twice with the same shots and seed, with a call of another
\* seed in between, and returned a histogram of two outcomes.
C17_Witness ==
    /\ Len(sampled) = 3
    /\ sampled[1].shots = sampled[3].shots
    /\ sampled[1].seed = sampled[3].seed
    /\ sampled[2].seed # sampled[1].seed
    /\ sampled[1].err = NoErr
    /\ Cardinality(HistSet(sampled[1].ret)) = 2
    /\ Cardinality(HistSet(sampled[2].ret)) >= 1

\* C18: sample on a resolved QuantumState with at least one basis state draws with
\* the probabilities as weights: its outcome is that of choices() weighted by the
\* squared magnitudes, and a single basis state (of probability 1) gets all shots.
C18_WeightsAreProbabilities ==
    (/\ last.op = "QuantumState.sample"
     /\ results[last.r].value # Unknown
     /\ results[last.r].value[1] # <<>>)
        => LET items == results[last.r].value[1]
               probs == probabilities_value(items)
               drawn == choices(dict_keys(items), [i \in DOMAIN probs |-> probs[i].num],
                                last.arg[1], last.arg[2])
           IN /\ last.err = NoErr
              /\ HistSet(last.ret) = Range(sample_count(<<>>, drawn.value))
              /\ (Len(items) = 1 /\ last.arg[1] >= 1)
                    => HistSet(last.ret) = {[state |-> items[1].state, count |-> last.arg[1]]}

\* The integer a binary label stands for.
RECURSIVE BitsValue(_)
BitsValue(bits) ==
    IF bits = <<>> THEN 0
    ELSE 2 * BitsValue(SubSeq(bits, 1, Len(bits) - 1)) + bits[Len(bits)]

C20_ScopeExit ==
    [][last'.op = "__exit__"
        => LET g == quants[last'.v] IN
           /\ IF AllFree(status[g.process], g.qubits)
              THEN last'.err = NoErr
              ELSE last'.err = RuntimeError("non-free quant at the end of scope")
           /\ UNCHANGED <<mode, executed, status, reg, quants, results>>
      ]_vars

\* A scope over a group of two allocated qubits was left without freeing them, and
\* the exit raised.
C20_Witness ==
    /\ last.op = "__exit__"
    /\ last.err.type = "RuntimeError"
    /\ Len(quants[last.v].qubits) = 2
    /\ ~AllFree(status[last.p], quants[last.v].qubits)
\* ------------------------------------------------------------------------
\* The kind of the failure the caller observed, by the operation that failed: an
\* allocation of less than one qubit, a concatenation across processes, a scope
\* left with a qubit still allocated, an instruction after the batch flush.
FailureKind(l) ==
    IF l.err = NoErr THEN "none"
    ELSE IF l.err = ProcessAlreadyExecutedError THEN "ProcessAlreadyExecutedError"
    ELSE IF l.op = "alloc" THEN "InvalidAllocation"
    ELSE IF l.op = "add" THEN "CrossProcessError"
    ELSE IF l.op = "__exit__" THEN "ScopeLeakError"
    ELSE "other"

\* C21: failures of different kinds are told apart by the class of the exception
\* alone, whatever its message: of two failures in a row that differ in kind
\* (allocation of less than one qubit, cross-process concatenation, scope leak,
\* instruction after the flush), the exception classes differ.
C21_KindsDistinct ==
    [][(/\ FailureKind(last) \notin {"none", "other"}
        /\ FailureKind(last') \notin {"none", "other"}
        /\ FailureKind(last) # FailureKind(last'))
       => last.err.type # last'.err.type]_vars

\* C21, what holds: a scope leak and an instruction after the flush are each told
\* by class from every failure of another kind.
C21_KindsDistinct_ScopeAndFlush ==
    [][(/\ FailureKind(last) \notin {"none", "other"}
        /\ FailureKind(last') \notin {"none", "other"}
        /\ FailureKind(last) # FailureKind(last')
        /\ {FailureKind(last), FailureKind(last')}
              # {"InvalidAllocation", "CrossProcessError"})
       => last.err.type # last'.err.type]_vars

\* ------------------------------------------------------------------------
\* The outcome l is that of a read of a deferred result (not of its creation).
IsRead(l) == l.r # 0 /\ l.op \notin {"Measurement", "QuantumState", "Samples"}

\* C22: a read (value, states, get, probabilities, ...) of an unresolved deferred
\* result made while the engine fails its queries raises the engine's failure as it
\* is, after one query only (no retry), forces no flush (no prepare_for_execution
\* call, execution state and registered requests as before) and leaves the cached
\* value absent.
C22_QueryFailurePropagates ==
    [][(/\ ~engine_ok /\ engine_ok' = engine_ok
        /\ IsRead(last')
        /\ results[last'.r].value = Unknown
        /\ results[last'.r].indexes # <<>>)
       => /\ last'.err = EngineQueryError
          /\ last'.ret = Unknown
          /\ last'.queries = 1
          /\ last'.flushes = 0
          /\ executed' = executed /\ reg' = reg
          /\ results'[last'.r].value = Unknown]_vars

\* C22 witness: get() on an unresolved result of a batch process not yet flushed
\* failed with the engine's failure, the process still not flushed.
C22_Witness ==
    /\ ~engine_ok
    /\ last.op \in {"Measurement.get", "QuantumState.get", "Samples.get"}
    /\ last.err = EngineQueryError
    /\ mode["p1"] = "batch" /\ ~executed["p1"]
    /\ results[last.r].value = Unknown

\* ------------------------------------------------------------------------
\* C23: instructions reach the engine in the order issued. alloc(n) issues its n
\* allocations in index order and returns the indices in that order; free issues
\* one free per contained index in the group's order; a snapshot request is issued
\* when the object is created, registered after the requests made before it, and
\* sees the qubit registry as the operations issued before it left it, resolved at
\* once in live mode; a request that is resolved, and a value once read, are not
\* changed by any later operation.
C23_IssuanceOrder ==
    [][LET l == last'
           p == "p1"
       IN /\ (l.op = "alloc" /\ l.err = NoErr)
                => /\ l.instrs = [i \in 1..l.arg |-> Instr("alloc", Len(status[l.p]) + i - 1)]
                   /\ quants'[l.w].qubits = [i \in 1..l.arg |-> Len(status[l.p]) + i - 1]
          /\ (l.op = "free" /\ l.err = NoErr)
                => l.instrs = [i \in DOMAIN quants[l.v].qubits |->
                                  Instr("free", quants[l.v].qubits[i])]
          /\ (l.op = "QuantumState" /\ l.err = NoErr /\ results' # results)
                => /\ l.instrs = <<Instr("dump", quants[l.v].qubits)>>
                   /\ Len(reg'[p]) = Len(reg[p]) + 1
                   /\ SubSeq(reg'[p], 1, Len(reg[p])) = reg[p]
                   /\ reg'[p][Len(reg'[p])].seen = status[p]
                   /\ results'[Len(results')].indexes = <<Len(reg[p])>>
                   /\ (mode[p] = "live" => reg'[p][Len(reg'[p])].ready)
          /\ \A i \in DOMAIN reg[p] : reg[p][i].ready => reg'[p][i] = reg[p][i]
          /\ \A r \in DOMAIN results :
                results[r].value # Unknown => results'[r].value = results[r].value]_vars

\* C23 witness: in a live process two snapshots were requested with a change of the
\* qubit registry between them; the earlier one was read before, the later one has
\* just been read, and each holds the value of its own request.
C23_Witness ==
    /\ mode["p1"] = "live"
    /\ Len(results) = 2
    /\ reg["p1"][1].seen # reg["p1"][2].seen
    /\ last.op = "QuantumState.states" /\ last.r = 2 /\ last.err = NoErr
    /\ results[1].value # Unknown /\ results[2].value # Unknown
    /\ results[1].value # results[2].value

\* ------------------------------------------------------------------------
\* What belongs to process p: its qubit statuses, its execution state, its mode,
\* its retrieval buffers, its registered requests and the values of its deferred
\* results.
ProcessState(p, st, ex, md, bf, rg, rs) ==
    [status |-> st[p], executed |-> ex[p], mode |-> md[p], buffers |-> bf[p],
     reg |-> rg[p],
     values |-> [r \in {x \in DOMAIN rs : rs[x].process = p} |-> rs[r].value]]

\* C24: processes share no mutable state: an operation on one process (alloc, free,
\* gate, execute, a result request or read, a retrieval) leaves what belongs to any
\* other process unchanged: qubit statuses, execution state, retrieval buffers,
\* registered requests and deferred-result values; in every interleaving.
C24_Independent ==
    [][\A p \in Procs :
         p # last'.p
           => /\ \A r \in DOMAIN results : results[r].process = p => r \in DOMAIN results'
              /\ ProcessState(p, status', executed', mode', buffers', reg', results')
                   = ProcessState(p, status, executed, mode, buffers, reg,
                                  [r \in {x \in DOMAIN results : results[x].process = p}
                                      |-> results'[r]])]_vars

\* C24 witness: both processes hold a qubit and a measurement; p1's metadata buffer
\* was regrown by a retrieval, p2's is as built; p1 is flushed and its measurement
\* resolved by get(), p2 is a batch process not flushed whose measurement is
\* unresolved.
C24_Witness ==
    /\ status["p1"] # <<>> /\ status["p2"] # <<>>
    /\ Len(results) = 2
    /\ \E r \in Results : results[r].process = "p1" /\ results[r].value # Unknown
    /\ \E r \in Results : results[r].process = "p2" /\ results[r].value = Unknown
    /\ executed["p1"] /\ ~executed["p2"] /\ mode["p2"] = "batch"
    /\ buffers["p1"].metadata.size > metadata_buffer_size
    /\ buffers["p2"].metadata = Buffer(metadata_buffer_size)

\* ------------------------------------------------------------------------
\* C26: get_instructions and get_metadata are read-only introspection, available
\* in every execution state: whatever the mode and whether or not the process was
\* flushed, a retrieval returns, makes no prepare_for_execution call, and leaves
\* the execution state, the qubit statuses, the registered requests, the groups and
\* the deferred-result values as they were.
C26_IntrospectionReadOnly ==
    [][last'.op \in {"get_instructions", "get_metadata"}
         => /\ last'.err = NoErr
            /\ last'.flushes = 0
            /\ UNCHANGED <<mode, executed, status, reg, quants, results>>]_vars

\* C26 witness: a retrieval has just been made on a batch process that holds an
\* unresolved measurement: the process is still not flushed and the request still
\* waits; or on a batch process already flushed, where instructions are refused.
C26_Witness ==
    /\ last.op \in {"get_instructions", "get_metadata"}
    /\ last.err = NoErr
    /\ last.ret.bytes.n > 0
    /\ mode["p1"] = "batch"
    /\ results # <<>>
    /\ \/ ~executed["p1"] /\ results[1].value = Unknown /\ ~reg["p1"][1].ready
       \/ executed["p1"] /\ ~engine_accepts("p1")

\* ------------------------------------------------------------------------
\* The non-forcing accessors of the deferred results.
NonForcing == {"Measurement.value", "QuantumState.states", "Samples.value"}

\* C25: in a live process every instruction is dispatched when issued: a
\* non-forcing read of a deferred result returns its resolved value, with no flush
\* and whether or not execute() was ever called; and execute() does not end a live
\* process: the engine goes on accepting, no later instruction is refused.
C25_LiveDispatch ==
    [][mode["p1"] = "live"
         => /\ engine_accepts("p1")'
            /\ last'.err # ProcessAlreadyExecutedError
            /\ (last'.op \in NonForcing)
                  => /\ last'.err = NoErr
                     /\ last'.ret # Unknown
                     /\ last'.flushes = 0
                     /\ executed' = executed]_vars

\* C25, what holds: the same, for every result but the measurement of the empty
\* group and the snapshot whose amplitudes cancel, whose reads raise.
C25_LiveDispatch_WellFormed ==
    [][mode["p1"] = "live"
         => /\ engine_accepts("p1")'
            /\ last'.err # ProcessAlreadyExecutedError
            /\ (/\ last'.op \in NonForcing
                /\ results[last'.r].indexes # <<>>
                /\ last'.err # ZeroDivisionError)
                  => /\ last'.err = NoErr
                     /\ last'.ret # Unknown
                     /\ last'.flushes = 0
                     /\ executed' = executed]_vars

\* C25, the case that holds has happened: in a live process on which execute() was
\* never called, the first read of a measurement of at least one qubit returned
\* its value.
C25_LiveDispatch_Reached ==
    /\ mode["p1"] = "live" /\ ~executed["p1"]
    /\ last.op = "Measurement.value" /\ last.err = NoErr
    /\ results[last.r].indexes # <<>>
    /\ last.ret # Unknown

\* ------------------------------------------------------------------------
\* The number of binary digits of abs(n), by its defining property.
BitLength(n) ==
    LET a == IF n < 0 THEN -n ELSE n
    IN CHOOSE k \in 0..30 : a < Pow2(k) /\ (k = 0 \/ a >= Pow2(k - 1))

\* The n-bit mask of val, most significant bit first.
MsbMask(val, n) == [i \in 1..n |-> (val \div Pow2(n - i)) % 2]

\* The X gates a mask asks for: one on each control qubit whose bit is 0, in order.
RECURSIVE FlipsOf(_, _)
FlipsOf(ctr, bits) ==
    IF ctr = <<>> \/ bits = <<>> THEN <<>>
    ELSE (IF Head(bits) = 0 THEN <<[op |-> "X", target |-> <<Head(ctr)>>]>> ELSE <<>>)
         \o FlipsOf(Tail(ctr), Tail(bits))

\* The outcome l is that of a controlled scope whose on_state was accepted.
IsScope(l) == l.op \in {"control", "ctrl"}
MaskAccepted(l) == l.err.type # "ValueError"

\* The instructions of an accepted scope begin with the flips of these bits and
\* the opening of the scope.
BeginsWith(l, bits) ==
    LET flips == FlipsOf(l.arg.ctr, bits) IN
    /\ Len(l.instrs) > Len(flips)
    /\ SubSeq(l.instrs, 1, Len(flips)) = flips
    /\ l.instrs[Len(flips) + 1] = [op |-> "ctrl_begin", target |-> l.arg.ctr]

\* C27: an integer on_state is accepted exactly when the number of control qubits
\* is at least its bit length, and is expanded to a mask, most significant bit
\* first, of exactly that many bits; a list is accepted exactly when its length is
\* the number of control qubits; every other on_state raises ValueError with no
\* instruction issued.
C27_OnState ==
    IsScope(last) =>
        LET on == last.arg.on_state
            n == Len(last.arg.ctr)
        IN /\ on.kind = "int"
                => /\ MaskAccepted(last) <=> n >= BitLength(on.val)
                   /\ MaskAccepted(last)
                        => /\ last.ret = Known(MsbMask(on.val, n))
                           /\ BeginsWith(last, MsbMask(on.val, n))
           /\ on.kind = "list"
                => /\ MaskAccepted(last) <=> Len(on.bits) = n
                   /\ MaskAccepted(last)
                        => last.ret = Known(on.bits) /\ BeginsWith(last, on.bits)
           /\ ~MaskAccepted(last) => last.instrs = <<>>

\* C27 amended: as C27 for the integers from 0 on and at least one control qubit;
\* with no control qubit the integer 0 is accepted and its mask is the single bit
\* 0, which flips nothing; a negative integer is never accepted.
C27_OnState_Amended ==
    IsScope(last) =>
        LET on == last.arg.on_state
            n == Len(last.arg.ctr)
        IN /\ (on.kind = "int" /\ on.val >= 0)
                => /\ MaskAccepted(last) <=> n >= BitLength(on.val)
                   /\ MaskAccepted(last)
                        => /\ last.ret = Known(IF n = 0 THEN <<0>> ELSE MsbMask(on.val, n))
                           /\ BeginsWith(last, MsbMask(on.val, n))
           /\ (on.kind = "int" /\ on.val < 0) => ~MaskAccepted(last)
           /\ on.kind = "list"
                => /\ MaskAccepted(last) <=> Len(on.bits) = n
                   /\ MaskAccepted(last)
                        => last.ret = Known(on.bits) /\ BeginsWith(last, on.bits)
           /\ ~MaskAccepted(last) => last.instrs = <<>>

\* C27 witness: on_state = 1 on two control qubits was accepted as the mask 0 1:
\* the first control qubit is flipped, then the scope is opened.
C27_Witness ==
    /\ IsScope(last)
    /\ last.arg.on_state = OnInt(1) /\ Len(last.arg.ctr) = 2
    /\ last.ret = Known(<<0, 1>>)
    /\ last.instrs[1] = Instr("X", <<0>>)
    /\ last.instrs[2] = Instr("ctrl_begin", <<0, 1>>)

\* C28: ctrl(control_qubits, func, on_state=...) issues the instructions of
\* `with control(control_qubits, on_state=...): func()`, in the same order, and ends
\* the same way: the flips, ctrl_begin, the body, ctrl_end, the flips again; for
\* every mask and every body, a body that raises included.
C28_CtrlEquivalent ==
    last.op = "ctrl"
      => LET w == with_control(last.arg.ctr, last.arg.on_state, last.arg.body)
         IN last.instrs = w.instrs /\ last.err = w.err

\* C28, what holds: the same, for the bodies that return.
C28_CtrlEquivalent_Returning ==
    (last.op = "ctrl" /\ ~last.arg.body.raises)
      => LET w == with_control(last.arg.ctr, last.arg.on_state, last.arg.body)
         IN last.instrs = w.instrs /\ last.err = w.err

\* C28, the case that holds has happened: ctrl with a mask that flips a qubit and a
\* body that issues a gate and returns.
C28_CtrlEquivalent_Reached ==
    /\ last.op = "ctrl" /\ last.err = NoErr
    /\ last.arg.on_state = OnInt(1) /\ Len(last.arg.ctr) = 2
    /\ Len(last.arg.body.instrs) = 1
    /\ Len(last.instrs) = 5

\* ------------------------------------------------------------------------
\* The construction defaults applied to the values a: simulator 'sparse' if none;
\* num_qubits 32 if none and the simulator is sparse, otherwise 12; execution
\* 'live' if none; a value that is given is passed through.
Defaulted(a, built) ==
    /\ built.configuration = None
    /\ built.simulator = (IF a.simulator = None THEN "sparse" ELSE a.simulator)
    /\ built.num_qubits =
          (IF a.num_qubits # Unknown THEN a.num_qubits
           ELSE IF built.simulator = "sparse" THEN Known(32) ELSE Known(12))
    /\ built.execution = (IF a.execution = None THEN "live" ELSE a.execution)

Merged(a, d) ==
    LET applies == d.force \/ a = ProcessArgs(None, Unknown, None, None)
    IN [configuration |-> IF applies /\ d.configuration # None THEN d.configuration
                          ELSE a.configuration,
        num_qubits |-> IF applies /\ d.num_qubits # Unknown THEN d.num_qubits
                       ELSE a.num_qubits,
        simulator |-> IF applies /\ d.simulator # None THEN d.simulator ELSE a.simulator,
        execution |-> IF applies /\ d.execution # None THEN d.execution ELSE a.execution]

RECURSIVE Flatten(_)
Flatten(seqs) == IF seqs = <<>> THEN <<>> ELSE Head(seqs) \o Flatten(Tail(seqs))

RECURSIVE SumLens(_)
SumLens(lens) == IF lens = <<>> THEN 0 ELSE Head(lens) + SumLens(Tail(lens))

\* The chunk results written one after the other as one binary numeral, the first
\* chunk most significant: each result stands above the bits of all later chunks.
RECURSIVE ConcatValue(_, _)
ConcatValue(vals, lens) ==
    IF vals = <<>> THEN 0
    ELSE (IF Head(vals) = 0 THEN 0 ELSE Head(vals) * Pow2(SumLens(Tail(lens))))
         + ConcatValue(Tail(vals), Tail(lens))

\* C30: a Measurement over n >= 1 qubits registers ceil(n / 64) sub-measurements;
\* their chunks, in order, make up the group, each of 1 to 64 qubits; and a read
\* that yields the value yields the chunk results concatenated bitwise, the first
\* chunk most significant.
C30_Chunked ==
    [][LET l == last' IN
       /\ (/\ l.op = "Measurement" /\ l.err = NoErr /\ results' # results
           /\ Len(quants[l.v].qubits) >= 1)
            => LET qs == quants[l.v].qubits
                   cs == [i \in DOMAIN l.instrs |-> l.instrs[i].target]
                   new == results'[l.r]
               IN /\ Len(cs) = (Len(qs) + 63) \div 64
                  /\ \A i \in DOMAIN cs :
                        l.instrs[i].op = "measure" /\ Len(cs[i]) >= 1 /\ Len(cs[i]) <= 64
                  /\ Flatten(cs) = qs
                  /\ Len(new.indexes) = Len(cs)
                  /\ \A i \in DOMAIN cs :
                        /\ new.indexes[i] = Len(reg[l.p]) + i - 1
                        /\ reg'[l.p][new.indexes[i] + 1].kind = "measure"
                        /\ reg'[l.p][new.indexes[i] + 1].n = Len(cs[i])
       /\ (/\ l.op \in {"Measurement.value", "Measurement.get"}
           /\ l.err = NoErr /\ l.ret # Unknown)
            => LET self == results'[l.r]
                   rg == reg'[l.p]
               IN l.ret = Known(ConcatValue(
                                  [i \in DOMAIN self.indexes |-> rg[self.indexes[i] + 1].val],
                                  [i \in DOMAIN self.indexes |-> rg[self.indexes[i] + 1].n]))]_vars

\* C30 witness: a measurement over more than 64 qubits, in two chunks, both of
\* whose results have a bit set, was read and gave its value.
C30_Witness ==
    /\ last.op \in {"Measurement.value", "Measurement.get"}
    /\ last.err = NoErr /\ last.ret # Unknown
    /\ Len(results[last.r].indexes) = 2
    /\ results[last.r].lens[1] = 64
    /\ \A i \in 1..2 : reg["p1"][results[last.r].indexes[i] + 1].val > 0
    /\ last.ret[1] > Pow2(results[last.r].lens[2])

\* ------------------------------------------------------------------------
\* C31: a read of a Measurement (value or get()) has no error outcome other than
\* an engine-reported query failure: over every group, the empty one included, it
\* returns unknown or an integer.
C31_ReadNoError ==
    last.op \in {"Measurement.value", "Measurement.get"}
      => /\ last.err \in {NoErr, EngineQueryError}
         /\ last.err = NoErr => (last.ret = Unknown \/ last.ret[1] \in Nat)

\* C31, what holds: the same, for the measurements of at least one qubit.
C31_ReadNoError_NonEmpty ==
    (last.op \in {"Measurement.value", "Measurement.get"}
       /\ results[last.r].indexes # <<>>)
      => /\ last.err \in {NoErr, EngineQueryError}
         /\ last.err = NoErr => (last.ret = Unknown \/ last.ret[1] \in Nat)

\* C31, the case that holds has happened: a measurement of at least one qubit was
\* read before the flush of its batch process and gave unknown.
C31_ReadNoError_Reached ==
    /\ last.op = "Measurement.value" /\ last.err = NoErr /\ last.ret = Unknown
    /\ results[last.r].indexes # <<>>

\* ------------------------------------------------------------------------
\* The number written by 64-bit words, the first most significant.
RECURSIVE Decode(_)
Decode(words) ==
    IF words = <<>> THEN 0
    ELSE (IF Head(words) = 0 THEN 0 ELSE Head(words) * Pow2(64 * (Len(words) - 1)))
         + Decode(Tail(words))

\* The sum of the amplitudes of the records of basis state st.
RECURSIVE SumAmp(_, _)
SumAmp(records, st) ==
    IF records = <<>> THEN <<0, 0>>
    ELSE LET rest == SumAmp(Tail(records), st) IN
         IF Decode(Head(records).state) = st
         THEN <<Head(records).amp[1] + rest[1], Head(records).amp[2] + rest[2]>>
         ELSE rest

\* C32: when a snapshot is resolved, each engine record is decoded to the basis
\* state its 64-bit words write, the first word most significant; the resolved
\* mapping has exactly one entry per distinct basis state of the records, and the
\* amplitude of an entry, before normalization, is the sum of the amplitudes of
\* all records of its basis state.
C32_Decoded ==
    [][\A r \in DOMAIN results :
         (/\ results[r].kind = "QuantumState"
          /\ results[r].value = Unknown /\ results'[r].value # Unknown)
           => LET records == reg'[results[r].process][results[r].indexes[1] + 1].val
                  items == results'[r].value[1]
              IN /\ {items[i].state : i \in DOMAIN items}
                      = {Decode(records[k].state) : k \in DOMAIN records}
                 /\ \A i, j \in DOMAIN items : items[i].state = items[j].state => i = j
                 /\ \A i \in DOMAIN items :
                       items[i].amp = SumAmp(records, items[i].state)]_vars

\* C32 witness: a snapshot over more than 64 qubits, whose records have two words
\* each and come twice for one basis state, is resolved to one entry with the sum.
C32_Witness ==
    /\ results # <<>> /\ results[1].kind = "QuantumState"
    /\ results[1].value # Unknown
    /\ LET records == reg["p1"][results[1].indexes[1] + 1].val
           items == results[1].value[1]
       IN /\ Len(records) = 2 /\ Len(records[1].state) = 2
          /\ records[1].state = records[2].state
          /\ Len(items) = 1 /\ items[1].amp = <<2, 0>> /\ items[1].state > 0

\* The accessors of QuantumState and Samples that never call execute().
NonForcingAccessors ==
    {"QuantumState.states", "QuantumState.probabilities", "QuantumState.sample",
     "QuantumState.show", "Samples.value"}

\* C33: requesting a deferred result never forces execution and neither do the
\* non-forcing accessors: creating a Measurement, QuantumState or Samples only
\* appends requests to the engine and leaves the cached value absent, and
\* QuantumState.states / probabilities / sample / show and Samples.value flush
\* nothing and return unknown without an error while the engine has not resolved
\* the request.
C33_NeverForces ==
    [][LET l == last' IN
       /\ (l.op \in {"Measurement", "QuantumState", "Samples"} /\ l.err = NoErr)
            => /\ l.flushes = 0
               /\ executed' = executed
               /\ Len(results') = Len(results) + 1
               /\ results'[Len(results')].value = Unknown
               /\ \A r \in DOMAIN results : results'[r] = results[r]
               /\ \A q \in DOMAIN reg :
                    /\ Len(reg'[q]) >= Len(reg[q])
                    /\ SubSeq(reg'[q], 1, Len(reg[q])) = reg[q]
       /\ l.op \in NonForcingAccessors
            => /\ l.flushes = 0
               /\ executed' = executed
               /\ reg' = reg
               /\ ~reg[results[l.r].process][results[l.r].indexes[1] + 1].ready
                    => /\ l.err = NoErr
                       /\ l.ret = Unknown
                       /\ results'[l.r].value = Unknown
      ]_vars

\* C33 witness: a non-forcing accessor was called on a result that the engine
\* has not resolved, in a batch process that has not executed.
C33_Witness ==
    /\ last.op \in NonForcingAccessors
    /\ last.err = NoErr
    /\ last.ret = Unknown
    /\ last.flushes = 0
    /\ ~executed[results[last.r].process]
    /\ ~reg[results[last.r].process][results[last.r].indexes[1] + 1].ready

\* The bit of weight 2^(size - k) of state: character k of its size-bit string.
BitAt(state, size, k) == (state \div Pow2(size - k)) % 2

\* Widths the pieces of a format string state, when each states one.
WidthsOf(format_str) == [i \in DOMAIN format_str |-> int_digits(format_str[i].digits)]

RECURSIVE SumWidths(_)
SumWidths(ws) == IF ws = <<>> THEN 0 ELSE Head(ws) + SumWidths(Tail(ws))

\* The label the documentation describes: the segments from the most significant
\* bit on, in decimal or binary, then the remaining bits in binary.
DocSegment(state, size, f, begin, width) ==
    IF f = "b"
    THEN [f |-> "b", bits |-> [k \in 1..width |-> BitAt(state, size, begin + k)], val |-> 0]
    ELSE [f |-> "i", bits |-> <<>>,
          val |-> (state \div Pow2(size - begin - width)) % Pow2(width)]

DocLabel(state, size, fs, ws) ==
    LET used == SumWidths(ws)
        segs == [i \in DOMAIN ws |->
                    DocSegment(state, size, fs[i], SumWidths(SubSeq(ws, 1, i - 1)), ws[i])]
    IN IF used < size
       THEN Append(segs, DocSegment(state, size, "b", used, size - used))
       ELSE segs

\* The widths a format string means: 'b' or 'i' alone is the whole label.
DocWidths(format_str, size) ==
    IF Len(format_str) = 1 /\ format_str[1].digits = <<>> THEN <<size>>
    ELSE WidthsOf(format_str)

\* A format string whose segments all state a width and fit into size bits.
Fits(format_str, size) ==
    /\ Len(format_str) > 1 => \A i \in DOMAIN format_str : format_str[i].digits # <<>>
    /\ SumWidths(DocWidths(format_str, size)) <= size

ShowsDocLabels(l, size) ==
    /\ l.err = NoErr
    /\ Fits(l.arg, size)
         => \A i \in DOMAIN l.ret[1] :
               l.ret[1][i].label =
                   DocLabel(results[l.r].value[1][
                                CHOOSE j \in DOMAIN results[l.r].value[1] :
                                    Cardinality({m \in DOMAIN results[l.r].value[1] :
                                        results[l.r].value[1][m].state
                                            < results[l.r].value[1][j].state}) = i - 1].state,
                            size, [k \in DOMAIN l.arg |-> l.arg[k].f], DocWidths(l.arg, size))

\* C34: for every format string of the documented grammar, show(format) on a
\* resolved snapshot renders each basis-state label by cutting the size-bit
\* zero-padded binary string of the state into the segments, from the most
\* significant bit on, each in decimal ('i') or binary ('b') at its stated width,
\* the remaining least significant bits as one binary segment; 'b' alone gives the
\* full size-bit string.
C34_ShowFormat ==
    (last.op = "QuantumState.show(format)" /\ results[last.r].value # Unknown)
        => ShowsDocLabels(last, results[last.r].lens[1])

\* C34 without the format strings the code fails on: when every 'i' segment has
\* at least one bit inside the label and every piece of a format string of several
\* pieces states its width, show(format) renders the documented labels.
C34_ShowFormat_Rendered ==
    (/\ last.op = "QuantumState.show(format)"
     /\ results[last.r].value # Unknown
     /\ Len(last.arg) > 1 => \A i \in DOMAIN last.arg : last.arg[i].digits # <<>>
     /\ \A i \in DOMAIN last.arg :
            last.arg[i].f = "i"
              => /\ DocWidths(last.arg, results[last.r].lens[1])[i] > 0
                 /\ SumWidths(SubSeq(DocWidths(last.arg, results[last.r].lens[1]), 1, i - 1))
                        < results[last.r].lens[1])
        => ShowsDocLabels(last, results[last.r].lens[1])

\* C34: a two-qubit snapshot shown in two segments, the first in decimal.
C34_ShowFormat_Reached ==
    /\ last.op = "QuantumState.show(format)"
    /\ last.err = NoErr
    /\ last.ret # Unknown
    /\ results[last.r].lens[1] = 2
    /\ Len(last.arg) = 2
    /\ last.arg[1] = Piece("i", <<1>>)
    /\ last.arg[2] = Piece("b", <<1>>)
    /\ Len(last.ret[1]) > 1

\* C35: a Samples result resolves to exactly the histogram the engine supplies:
\* when get_sample reports ready with (states, counts, size), the cached value maps
\* states[i] to counts[i] for every i < size and holds nothing else; no outcome is
\* drawn locally and the shot count of the request stays the one given at creation.
C35_EngineHistogram ==
    [][\A r \in DOMAIN results :
          (/\ results[r].kind = "Samples"
           /\ results[r].value = Unknown
           /\ results'[r].value # Unknown)
            => LET p == results[r].process
                   e == reg'[p][results[r].indexes[1] + 1]
                   value == results'[r].value[1]
               IN /\ e.ready
                  /\ \A i \in 1..e.val.size :
                        \E k \in DOMAIN value :
                            value[k].state = e.val.states[i] /\ value[k].count = e.val.counts[i]
                  /\ \A k \in DOMAIN value :
                        \E i \in 1..e.val.size :
                            value[k].state = e.val.states[i] /\ value[k].count = e.val.counts[i]
                  /\ \A k \in DOMAIN value : \A m \in DOMAIN value :
                        value[k].state = value[m].state => k = m
                  /\ sampled' = sampled
                  /\ e.shots = reg[p][results[r].indexes[1] + 1].shots
                  /\ e.shots = MaxShots
      ]_vars

\* C35 witness: a Samples result resolved to a histogram of two outcomes.
C35_Witness ==
    /\ last.op \in {"Samples.value", "Samples.get"}
    /\ results[last.r].kind = "Samples"
    /\ results[last.r].value # Unknown
    /\ Len(results[last.r].value[1]) = 2

Derivations == {"add", "at", "reversed", "getitem", "iter"}

\* The indices of a group, as a set.
IndicesOf(g) == {g.qubits[i] : i \in DOMAIN g.qubits}

\* r holds g's elements at positions that start at first and go on by step.
Strides(r, g, step) ==
    r # <<>> =>
        \E first \in DOMAIN g :
            /\ \A j \in DOMAIN r : first + (j - 1) * step \in DOMAIN g
            /\ \A j \in DOMAIN r : r[j] = g[first + (j - 1) * step]

\* C36: group derivations are pure. Concatenation, at, indexing and slicing,
\* reversal and iteration each give a new group of the operand's process whose
\* indices are the operand group(s)' in the stated order; the operand groups keep
\* their index sequences, no instruction is issued to the engine, and so every
\* group's indices were allocated by its own process.
C36_DerivationsPure ==
    [][last'.op \in Derivations
        => LET l == last'
               g == quants[l.v]
               r == quants'["b"]
           IN /\ l.issued = 0 /\ l.instrs = <<>> /\ l.flushes = 0
              /\ status' = status /\ reg' = reg /\ executed' = executed
              /\ quants'["a"] = quants["a"]
              /\ (l.err # NoErr \/ l.op = "iter") => quants' = quants
              /\ (l.err = NoErr /\ l.op # "iter")
                    => /\ r.process = g.process
                       /\ IndicesOf(r) \subseteq
                             IndicesOf(g) \cup (IF l.op = "add" THEN IndicesOf(quants[l.v2])
                                                ELSE {})
              /\ (l.err = NoErr /\ l.op = "add")
                    => r.qubits = g.qubits \o quants[l.v2].qubits
              /\ (l.err = NoErr /\ l.op = "reversed")
                    => Strides(r.qubits, g.qubits, -1) /\ Len(r.qubits) = Len(g.qubits)
              /\ (l.err = NoErr /\ l.op = "at")
                    => /\ Len(r.qubits) = Len(l.arg)
                       /\ \A j \in DOMAIN l.arg :
                            r.qubits[j] = g.qubits[IF l.arg[j] >= 0 THEN l.arg[j] + 1
                                                   ELSE Len(g.qubits) + l.arg[j] + 1]
              /\ (l.err = NoErr /\ l.op = "getitem" /\ l.arg.kind = "int")
                    => r.qubits = <<g.qubits[IF l.arg.i >= 0 THEN l.arg.i + 1
                                             ELSE Len(g.qubits) + l.arg.i + 1]>>
              /\ (l.err = NoErr /\ l.op = "getitem" /\ l.arg.kind = "slice")
                    => /\ Strides(r.qubits, g.qubits,
                                  IF l.arg.step = Unknown THEN 1 ELSE l.arg.step[1])
                       /\ (l.arg.start = Unknown /\ l.arg.stop = Unknown /\ l.arg.step = Unknown)
                            => r.qubits = g.qubits
              /\ l.op = "iter"
                    => /\ Len(l.ret) = Len(g.qubits)
                       /\ \A i \in DOMAIN l.ret :
                            l.ret[i] = [process |-> g.process, qubits |-> <<g.qubits[i]>>]
              /\ \A v \in QVars :
                    IndicesOf(quants'[v]) \subseteq 0..(Len(status'[quants'[v].process]) - 1)
      ]_vars

\* C36 witness: a backwards slice of a group of two indices gave a new group of
\* the same process and left the operand as it was.
C36_Witness ==
    /\ last.op = "getitem"
    /\ last.v = "a"
    /\ last.err = NoErr
    /\ last.arg = SliceKey(Unknown, Unknown, Known(-1))
    /\ quants["a"].qubits = <<0, 1>>
    /\ quants["b"] = [process |-> "p1", qubits |-> <<1, 0>>]

\* Whether the caller gave a value, for the four constructor arguments.
Given(a) ==
    [configuration |-> a.configuration # None, num_qubits |-> a.num_qubits # Unknown,
     simulator |-> a.simulator # None, execution |-> a.execution # None]

NoneGiven(a) ==
    LET g == Given(a) IN ~g.configuration /\ ~g.num_qubits /\ ~g.simulator /\ ~g.execution

\* The constructor without any default process configuration.
Construct(a) == Process_init(a, DEFAULT_PROCESS_CONFIGURATION)

AfterMerge(a, d) ==
    LET use == d.force \/ NoneGiven(a) IN
    [configuration |-> IF use /\ Given(d).configuration THEN d.configuration
                       ELSE a.configuration,
     num_qubits |-> IF use /\ Given(d).num_qubits THEN d.num_qubits ELSE a.num_qubits,
     simulator |-> IF use /\ Given(d).simulator THEN d.simulator ELSE a.simulator,
     execution |-> IF use /\ Given(d).execution THEN d.execution ELSE a.execution]

\* C38: constructing a Process where, after default merging, a configuration
\* object is present together with any of num_qubits, simulator or execution
\* raises ValueError and builds nothing: no engine process, no retrieval buffer,
\* no change of any process; also when the configuration comes from forced
\* defaults and the other value from the call.
C38_ConfigConflict ==
    [][LET l == last'
           g == Given(AfterMerge(l.arg, defaults))
       IN (l.op = "Process" /\ g.configuration
             /\ (g.num_qubits \/ g.simulator \/ g.execution))
            => /\ l.err = ValueError("Cannot specify num_qubits, simulator or execution if configuration is provided")
               /\ l.ret = None
               /\ UNCHANGED <<mode, executed, status, reg, quants, results, buffers, defaults>>
      ]_vars

\* C38 witness: the configuration object comes from forced defaults, the execution
\* mode from the constructor call, and the construction raised.
C38_Witness ==
    /\ last.op = "Process"
    /\ last.err.type = "ValueError"
    /\ defaults = [configuration |-> "configuration", num_qubits |-> Unknown,
                   simulator |-> None, execution |-> None, force |-> TRUE]
    /\ last.arg = ProcessArgs(None, Unknown, None, "batch")

Channels == {"instructions", "metadata"}

\* The engine calls of a retrieval that reported a size over the capacity passed.
Overflows(calls) == {i \in DOMAIN calls : calls[i].write_size > calls[i].capacity}

\* C39: across any sequence of get_metadata() and get_instructions() calls each
\* retrieval buffer's capacity never decreases: it starts at 512 for metadata and
\* 2048 for instructions and after a regrowth is the reported size plus one; the
\* recorded capacity is the length of the buffer handed to the engine; growing one
\* buffer leaves the other buffer and its capacity unchanged.
C39_Capacity ==
    /\ \A p \in Procs :
          /\ buffers[p].metadata.size = 512 /\ buffers[p].metadata.len = 512
          /\ buffers[p].instructions.size = 2048 /\ buffers[p].instructions.len = 2048
    /\ [][\A p \in Procs : \A ch \in Channels :
             LET old == buffers[p][ch]
                 new == buffers'[p][ch]
                 calls == last'.ret.calls
                 over == Overflows(calls)
             IN /\ new.size >= old.size
                /\ new.len = new.size
                /\ new # old => (last'.op \in Retrievals /\ last'.p = p /\ last'.arg = ch)
                /\ (last'.op \in Retrievals /\ last'.p = p /\ last'.arg = ch)
                      => /\ calls[1].capacity = old.size
                         /\ over = {} => new.size = old.size
                         /\ over # {}
                              => /\ new.size > old.size
                                 /\ \E i \in over :
                                       /\ \A j \in over : j <= i
                                       /\ new.size = calls[i].write_size + 1
      ]_vars

\* C39 witness: get_metadata() regrew the metadata buffer for a payload of twice
\* its capacity while the instructions buffer, regrown before, kept its capacity.
C39_Witness ==
    /\ last.op = "get_metadata"
    /\ buffers["p1"].metadata.size = 2 * metadata_buffer_size + 1
    /\ buffers["p1"].metadata.len = 2 * metadata_buffer_size + 1
    /\ buffers["p1"].instructions.size = instructions_buffer_size + 2
    /\ buffers["p1"].instructions.len = instructions_buffer_size + 2

\* The positions of the instructions of one kind in a sequence.
PositionsOf(instrs, op) == {i \in DOMAIN instrs : instrs[i].op = op}

\* The scope of an instruction sequence is balanced: as many ctrl_end as
\* ctrl_begin, every ctrl_begin before its ctrl_end, and the qubits flipped before
\* the first ctrl_begin are the ones flipped after the last ctrl_end.
Balanced(instrs) ==
    LET begins == PositionsOf(instrs, "ctrl_begin")
        ends == PositionsOf(instrs, "ctrl_end")
    IN /\ Cardinality(begins) = Cardinality(ends)
       /\ begins # {}
            => LET b == CHOOSE i \in begins : \A j \in begins : i <= j
                   e == CHOOSE i \in ends : \A j \in ends : j <= i
               IN /\ b < e
                  /\ \A i \in 1..(b - 1) : instrs[i].op = "X"
                  /\ SubSeq(instrs, e + 1, Len(instrs)) = SubSeq(instrs, 1, b - 1)
       /\ begins = {} => PositionsOf(instrs, "X") = {}

\* C40: after a ctrl(...) call or a `with control(...)` block finishes, whether the
\* body returns or raises, every ctrl_begin issued is matched by a ctrl_end and
\* every control qubit flipped for the mask before ctrl_begin is flipped back after
\* ctrl_end.
C40_ScopesBalanced ==
    IsScope(last) => Balanced(last.instrs)

\* C40, what holds: the scopes of `with control(...)` are balanced whatever the
\* body does, and those of ctrl(...) when the body returns.
C40_ScopesBalanced_Cleanup ==
    (IsScope(last) /\ (last.op = "control" \/ ~last.arg.body.raises))
        => Balanced(last.instrs)

\* C40, the case that holds has happened: a `with control(...)` block whose mask
\* flips a qubit and whose body raises was closed and the qubit flipped back.
C40_ScopesBalanced_Reached ==
    /\ last.op = "control"
    /\ last.err = BodyError
    /\ last.arg.body.raises
    /\ PositionsOf(last.instrs, "X") # {}
    /\ PositionsOf(last.instrs, "ctrl_end") # {}
    /\ Balanced(last.instrs)

====
